---- MODULE Spec2Model ----
(***************************************************************************)
(* Model of the Decision OS layer store (DecisionOSStorage): units of work *)
(* ("cases"), divergence records ("pressure events") and compressed        *)
(* learning records ("foundations") kept in one .decision-os directory,    *)
(* with the in-memory active-case pointer and id counters of one store     *)
(* instance.                                                               *)
(*                                                                         *)
(* Strings that the code builds or parses (identifiers, titles, slugs) are *)
(* sequences of one-character strings, so that formatting, slugifying and  *)
(* the counter-seeding regular expressions are computed, not assumed.      *)
(* Timestamps and the free-text narrative fields are not represented: no   *)
(* branch of the store reads them.                                         *)
(***************************************************************************)
EXTENDS Integers, Sequences, FiniteSets, TLC

\* ---------------------------------------------------------------------------
\* Bounds of the model
\* ---------------------------------------------------------------------------

\* createCase is offered while the case counter is at most MaxCases
MaxCases == 2

\* logPressure is offered while the pressure counter is at most MaxPressures
MaxPressures == 2

\* promoteToFoundation is offered while the foundation counter is at most MaxFoundations
MaxFoundations == 1

\* ---------------------------------------------------------------------------
\* Characters and strings
\* ---------------------------------------------------------------------------

DigitSeq == <<"0", "1", "2", "3", "4", "5", "6", "7", "8", "9">>

LowerSeq == <<"a", "b", "c", "d", "e", "f", "g", "h", "i", "j", "k", "l", "m",
              "n", "o", "p", "q", "r", "s", "t", "u", "v", "w", "x", "y", "z">>

UpperSeq == <<"A", "B", "C", "D", "E", "F", "G", "H", "I", "J", "K", "L", "M",
              "N", "O", "P", "Q", "R", "S", "T", "U", "V", "W", "X", "Y", "Z">>

Range(s) == {s[i] : i \in DOMAIN s}

IsDigit(c) == c \in Range(DigitSeq)

IsLower(c) == c \in Range(LowerSeq)

\* [a-z0-9]
IsAlnum(c) == IsLower(c) \/ IsDigit(c)

DigitValue(c) == (CHOOSE i \in DOMAIN DigitSeq : DigitSeq[i] = c) - 1

\* String.prototype.toLowerCase on one character
toLowerCaseChar(c) ==
  IF \E i \in DOMAIN UpperSeq : UpperSeq[i] = c
    THEN LowerSeq[CHOOSE i \in DOMAIN UpperSeq : UpperSeq[i] = c]
    ELSE c

toLowerCase(s) == [i \in DOMAIN s |-> toLowerCaseChar(s[i])]

Min(a, b) == IF a <= b THEN a ELSE b

\* String(n) for a non-negative integer
RECURSIVE NumToString(_)
NumToString(n) ==
  IF n < 10 THEN <<DigitSeq[n + 1]>>
  ELSE NumToString(n \div 10) \o <<DigitSeq[(n % 10) + 1]>>

\* s.padStart(width, "0")
RECURSIVE padStart(_, _)
padStart(s, width) ==
  IF Len(s) >= width THEN s ELSE padStart(<<"0">> \o s, width)

\* the longest run of digits at the start of s
RECURSIVE LeadingDigits(_)
LeadingDigits(s) ==
  IF s = <<>> \/ ~IsDigit(Head(s)) THEN <<>>
  ELSE <<Head(s)>> \o LeadingDigits(Tail(s))

\* parseInt(s, 10) for a non-empty string of digits
RECURSIVE parseInt(_)
parseInt(s) ==
  IF Len(s) = 1 THEN DigitValue(s[1])
  ELSE parseInt(SubSeq(s, 1, Len(s) - 1)) * 10 + DigitValue(s[Len(s)])

\* s.slice(from) with a 1-based start
DropFirst(s, n) == SubSeq(s, n + 1, Len(s))

\* positions at which pat occurs in s immediately followed by a digit
MatchStarts(s, pat) ==
  {i \in 1..Len(s) :
     /\ i + Len(pat) <= Len(s)
     /\ SubSeq(s, i, i + Len(pat) - 1) = pat
     /\ IsDigit(s[i + Len(pat)])}

\* the capture group of an unanchored /pat(\d+)/ on s, or <<>> when there is no match
CaptureDigitsAfter(s, pat) ==
  IF MatchStarts(s, pat) = {} THEN <<>>
  ELSE LET i == CHOOSE k \in MatchStarts(s, pat) :
                  \A j \in MatchStarts(s, pat) : k <= j
       IN LeadingDigits(DropFirst(s, i + Len(pat) - 1))

\* ---------------------------------------------------------------------------
\* slugify
\* ---------------------------------------------------------------------------

\* drop the leading run of characters outside [a-z0-9]
RECURSIVE SkipNonAlnum(_)
SkipNonAlnum(s) ==
  IF s = <<>> \/ IsAlnum(Head(s)) THEN s ELSE SkipNonAlnum(Tail(s))

\* .replace(/[^a-z0-9]+/g, "-")
RECURSIVE ReplaceNonAlnumRuns(_)
ReplaceNonAlnumRuns(s) ==
  IF s = <<>> THEN <<>>
  ELSE IF IsAlnum(Head(s)) THEN <<Head(s)>> \o ReplaceNonAlnumRuns(Tail(s))
  ELSE <<"-">> \o ReplaceNonAlnumRuns(SkipNonAlnum(Tail(s)))

RECURSIVE StripLeadingHyphens(_)
StripLeadingHyphens(s) ==
  IF s = <<>> \/ Head(s) # "-" THEN s ELSE StripLeadingHyphens(Tail(s))

RECURSIVE StripTrailingHyphens(_)
StripTrailingHyphens(s) ==
  IF s = <<>> \/ s[Len(s)] # "-" THEN s
  ELSE StripTrailingHyphens(SubSeq(s, 1, Len(s) - 1))

\* .replace(/^-+|-+$/g, "")
TrimHyphens(s) == StripTrailingHyphens(StripLeadingHyphens(s))

\* the slug is cut to this many characters
SlugMaxLen == 50

slugify(text) ==
  LET trimmed == TrimHyphens(ReplaceNonAlnumRuns(toLowerCase(text)))
  IN SubSeq(trimmed, 1, Min(SlugMaxLen, Len(trimmed)))

\* `${String(n).padStart(4, "0")}-${slugify(title)}`
CaseIdFor(n, title) == padStart(NumToString(n), 4) \o <<"-">> \o slugify(title)

\* `PE-${String(n).padStart(4, "0")}`
PressureIdFor(n) == <<"P", "E", "-">> \o padStart(NumToString(n), 4)

\* `${prefix}-${String(n).padStart(4, "0")}` with prefix GF for GLOBAL, F otherwise
FoundationIdFor(n, scope) ==
  (IF scope = "GLOBAL" THEN <<"G", "F">> ELSE <<"F">>)
    \o <<"-">> \o padStart(NumToString(n), 4)

\* ---------------------------------------------------------------------------
\* Values
\* ---------------------------------------------------------------------------

\* null / undefined / "" where the code expects a case id
NoCase == <<>>

\* promoted_to_foundation not set
NoFoundation == <<>>

\* signals.outcome absent
NoOutcome == "none"

\* Regret = z.enum(["0", "1", "2", "3"])
Regret == {"0", "1", "2", "3"}

\* CaseStatus = z.enum(["ACTIVE", "COMPLETED", "ABANDONED"])
CaseStatus == {"ACTIVE", "COMPLETED", "ABANDONED"}

\* String(outcome.regret): the caller passes a number, [num |-> n] with n a single
\* digit, or a string, [str |-> s]
StringOfRegret(r) == IF "num" \in DOMAIN r THEN NumToString(r.num)[1] ELSE r.str

\* CaseSchema.parse, on the fields the model keeps
CaseSchemaOk(c) ==
  /\ c.status \in CaseStatus
  /\ c.regret \in Regret \cup {NoOutcome}

\* ---------------------------------------------------------------------------
\* Ordering of identifiers (localeCompare on [0-9a-z-] strings)
\* ---------------------------------------------------------------------------

CharRank(c) ==
  IF IsDigit(c) THEN 1 + DigitValue(c)
  ELSE IF IsLower(c) THEN 10 + (CHOOSE i \in DOMAIN LowerSeq : LowerSeq[i] = c)
  ELSE 0

RECURSIVE StrLess(_, _)
StrLess(a, b) ==
  IF b = <<>> THEN FALSE
  ELSE IF a = <<>> THEN TRUE
  ELSE IF CharRank(Head(a)) # CharRank(Head(b))
         THEN CharRank(Head(a)) < CharRank(Head(b))
  ELSE StrLess(Tail(a), Tail(b))

\* the ids of S in ascending order
RECURSIVE SortIds(_)
SortIds(S) ==
  IF S = {} THEN <<>>
  ELSE LET least == CHOOSE a \in S : \A b \in S \ {a} : StrLess(a, b)
       IN <<least>> \o SortIds(S \ {least})

\* ---------------------------------------------------------------------------
\* The layer directory (disk) and one store instance (mem)
\*   disk.cases       case id -> case.yaml
\*   disk.pressures   case id -> the events of pressures.yaml
\*   disk.foundations the foundations of defaults/foundations.yaml
\*   disk.marker      the content of .active-case, NoCase when the file is absent
\* ---------------------------------------------------------------------------

EmptyDisk ==
  [cases |-> <<>>, pressures |-> <<>>, foundations |-> <<>>, marker |-> NoCase]

\* private fields of a freshly constructed DecisionOSStorage
NewInstance ==
  [activeCase |-> NoCase, nextPressureId |-> 1, nextCaseId |-> 1, nextFoundationId |-> 1]

Remove(f, k) == [x \in (DOMAIN f) \ {k} |-> f[x]]

Put(f, k, v) == (k :> v) @@ f

\* { ...current, ...updates }
Merge(current, updates) ==
  [k \in (DOMAIN current) \cup (DOMAIN updates) |->
     IF k \in DOMAIN updates THEN updates[k] ELSE current[k]]

caseExists(d, caseId) == caseId \in DOMAIN d.cases

\* the cases of the layer sorted by id
listCases(d) ==
  LET ids == SortIds(DOMAIN d.cases) IN [i \in DOMAIN ids |-> d.cases[ids[i]]]

getPressureEvents(d, caseId) ==
  IF caseId \in DOMAIN d.pressures THEN d.pressures[caseId] ELSE <<>>

\* activeCase := caseId, then persistActiveCase writes or unlinks the marker
setActiveCase(d, m, caseId) ==
  [disk |-> [d EXCEPT !.marker = caseId],
   mem  |-> [m EXCEPT !.activeCase = caseId]]

\* the case document updateCase writes
updateCaseDoc(d, caseId, updates) == Merge(d.cases[caseId], updates)

\* updateCase: err is "NotFound" for an unknown id, "Validation" when the merged
\* document fails the schema; the file is written only when err is "none"
updateCase(d, caseId, updates) ==
  IF ~caseExists(d, caseId) THEN [disk |-> d, err |-> "NotFound"]
  ELSE IF ~CaseSchemaOk(updateCaseDoc(d, caseId, updates))
    THEN [disk |-> d, err |-> "Validation"]
  ELSE [disk |-> [d EXCEPT !.cases = Put(d.cases, caseId, updateCaseDoc(d, caseId, updates))],
        err  |-> "none"]

\* rm -r of the case directory
forgetCase(d, caseId) ==
  IF caseExists(d, caseId) \/ caseId \in DOMAIN d.pressures
    THEN [d EXCEPT !.cases = Remove(d.cases, caseId),
                   !.pressures = Remove(d.pressures, caseId)]
    ELSE d

\* createCase that makes the new case active only when no case is active
createCaseKeepsActive(d, m, title) ==
  LET id  == CaseIdFor(m.nextCaseId, title)
      doc == [id |-> id, title |-> title, status |-> "ACTIVE",
              regret |-> NoOutcome, pressure_events |-> <<>>]
      d1  == [d EXCEPT !.cases = Put(d.cases, id, doc),
                       !.pressures = Put(d.pressures, id, <<>>)]
      m1  == [m EXCEPT !.nextCaseId = m.nextCaseId + 1]
      act == IF m.activeCase = NoCase THEN setActiveCase(d1, m1, id)
             ELSE [disk |-> d1, mem |-> m1]
  IN [disk |-> act.disk, mem |-> act.mem, err |-> "none", case |-> doc]

createCase(d, m, title) ==
  LET id  == CaseIdFor(m.nextCaseId, title)
      doc == [id |-> id, title |-> title, status |-> "ACTIVE",
              regret |-> NoOutcome, pressure_events |-> <<>>]
      d1  == [d EXCEPT !.cases = Put(d.cases, id, doc),
                       !.pressures = Put(d.pressures, id, <<>>)]
      m1  == [m EXCEPT !.nextCaseId = m.nextCaseId + 1]
      act == setActiveCase(d1, m1, id)
  IN [disk |-> act.disk, mem |-> act.mem, err |-> "none", case |-> doc]

\* allPromoted with the every() clause lost: only an empty list counts
allPromotedOnlyEmpty(pressures) == Len(pressures) = 0

\* allPromoted with some() in place of every()
allPromotedSome(pressures) ==
  Len(pressures) = 0
    \/ \E i \in DOMAIN pressures : pressures[i].promoted_to_foundation # NoFoundation

\* every event of the list has a promoted_to_foundation value
allPromoted(pressures) ==
  Len(pressures) = 0
    \/ \A i \in DOMAIN pressures : pressures[i].promoted_to_foundation # NoFoundation

\* clearActiveIfClosed without its test: the pointer is cleared by every close
clearActiveAlways(d, m, caseId) == setActiveCase(d, m, NoCase)

\* clearActiveIfClosed without its body: closing never touches the pointer
clearActiveNever(d, m, caseId) == [disk |-> d, mem |-> m]

\* if (this.activeCase === caseId) await this.setActiveCase(null)
clearActiveIfClosed(d, m, caseId) ==
  IF m.activeCase = caseId THEN setActiveCase(d, m, NoCase) ELSE [disk |-> d, mem |-> m]

closeCase(d, m, caseId, regret) ==
  LET normalizedRegret == StringOfRegret(regret)
      upd == updateCase(d, caseId, [status |-> "COMPLETED", regret |-> normalizedRegret])
      act == clearActiveIfClosed(upd.disk, m, caseId)
      forget == normalizedRegret = "0" /\ allPromoted(getPressureEvents(act.disk, caseId))
  IN IF upd.err # "none"
       THEN [disk |-> d, mem |-> m, err |-> upd.err, case |-> NoCase, forgotten |-> FALSE]
       ELSE [disk |-> IF forget THEN forgetCase(act.disk, caseId) ELSE act.disk,
             mem  |-> act.mem,
             err  |-> "none",
             case |-> upd.disk.cases[caseId],
             forgotten |-> forget]

\* logPressure that appends to pressures.yaml and skips the update of case.yaml
logPressureNoBackReference(d, m, case_id, context_tags) ==
  LET caseId == IF case_id # NoCase THEN case_id ELSE m.activeCase
      id     == PressureIdFor(m.nextPressureId)
      pe     == [id |-> id, case_id |-> caseId, context_tags |-> context_tags,
                 promoted_to_foundation |-> NoFoundation]
      d1     == [d EXCEPT !.pressures =
                   Put(d.pressures, caseId, Append(getPressureEvents(d, caseId), pe))]
  IN IF caseId = NoCase
       THEN [disk |-> d, mem |-> m, err |-> "NoActiveCase", event |-> NoCase]
     ELSE IF ~caseExists(d, caseId)
       THEN [disk |-> d, mem |-> m, err |-> "NotFound", event |-> NoCase]
     ELSE [disk |-> d1,
           mem  |-> [m EXCEPT !.nextPressureId = m.nextPressureId + 1],
           err  |-> "none",
           event |-> pe]

\* logPressure that allocates the id before it resolves and checks the unit
logPressureCountsFirst(d, m, case_id, context_tags) ==
  LET caseId == IF case_id # NoCase THEN case_id ELSE m.activeCase
      id     == PressureIdFor(m.nextPressureId)
      m1     == [m EXCEPT !.nextPressureId = m.nextPressureId + 1]
      pe     == [id |-> id, case_id |-> caseId, context_tags |-> context_tags,
                 promoted_to_foundation |-> NoFoundation]
      d1     == [d EXCEPT !.pressures =
                   Put(d.pressures, caseId, Append(getPressureEvents(d, caseId), pe))]
      upd    == updateCase(d1, caseId,
                   [pressure_events |-> Append(d.cases[caseId].pressure_events, id)])
  IN IF caseId = NoCase
       THEN [disk |-> d, mem |-> m1, err |-> "NoActiveCase", event |-> NoCase]
     ELSE IF ~caseExists(d, caseId)
       THEN [disk |-> d, mem |-> m1, err |-> "NotFound", event |-> NoCase]
     ELSE [disk |-> upd.disk, mem |-> m1, err |-> "none", event |-> pe]

logPressure(d, m, case_id, context_tags) ==
  LET caseId == IF case_id # NoCase THEN case_id ELSE m.activeCase
      id     == PressureIdFor(m.nextPressureId)
      pe     == [id |-> id, case_id |-> caseId, context_tags |-> context_tags,
                 promoted_to_foundation |-> NoFoundation]
      d1     == [d EXCEPT !.pressures =
                   Put(d.pressures, caseId, Append(getPressureEvents(d, caseId), pe))]
      upd    == updateCase(d1, caseId,
                   [pressure_events |-> Append(d.cases[caseId].pressure_events, id)])
  IN IF caseId = NoCase
       THEN [disk |-> d, mem |-> m, err |-> "NoActiveCase", event |-> NoCase]
     ELSE IF ~caseExists(d, caseId)
       THEN [disk |-> d, mem |-> m, err |-> "NotFound", event |-> NoCase]
     ELSE [disk |-> upd.disk,
           mem  |-> [m EXCEPT !.nextPressureId = m.nextPressureId + 1],
           err  |-> "none",
           event |-> pe]

\* FoundationScope = z.enum(["GLOBAL", "PROJECT"])
FoundationScope == {"GLOBAL", "PROJECT"}

\* input.scope not given
NoScope == "unset"

\* scope as the caller passes it
ScopeInputs == FoundationScope \cup {NoScope}

\* input.origin_project not given
NoProject == <<>>

\* index of the first event with the given id, 0 when there is none (findIndex)
findIndex(pressures, pressureId) ==
  IF \E i \in DOMAIN pressures : pressures[i].id = pressureId
    THEN CHOOSE i \in DOMAIN pressures :
           /\ pressures[i].id = pressureId
           /\ \A j \in 1..(i - 1) : pressures[j].id # pressureId
    ELSE 0

\* the scan of markPressurePromoted over the cases from position k on
RECURSIVE markPressureFrom(_, _, _, _, _)
markPressureFrom(d, cases, k, pressureId, foundationId) ==
  IF k > Len(cases) THEN d
  ELSE LET pressures == getPressureEvents(d, cases[k].id)
           idx == findIndex(pressures, pressureId)
       IN IF idx # 0
            THEN [d EXCEPT !.pressures =
                    Put(d.pressures, cases[k].id,
                        [pressures EXCEPT ![idx].promoted_to_foundation = foundationId])]
            ELSE markPressureFrom(d, cases, k + 1, pressureId, foundationId)

\* sets promoted_to_foundation on the first event with this id, in the first case
\* (in listCases order) that holds one; does nothing when no case holds it
markPressurePromoted(d, pressureId, foundationId) ==
  markPressureFrom(d, listCases(d), 1, pressureId, foundationId)

\* the loop over source_pressures left after its first round
markAllPromotedFirstOnly(d, source_pressures, foundationId) ==
  IF source_pressures = <<>> THEN d
  ELSE markPressurePromoted(d, Head(source_pressures), foundationId)

\* for (const peId of input.source_pressures) await markPressurePromoted(peId, id)
RECURSIVE markAllPromoted(_, _, _)
markAllPromoted(d, source_pressures, foundationId) ==
  IF source_pressures = <<>> THEN d
  ELSE markAllPromoted(markPressurePromoted(d, Head(source_pressures), foundationId),
                       Tail(source_pressures), foundationId)

\* input.scope ?? "PROJECT"
scopeOrDefault(scope) == IF scope = NoScope THEN "PROJECT" ELSE scope

\* input: [title, default_behavior, context_tags, source_pressures, scope, origin_project]
promoteToFoundation(d, m, input) ==
  LET scope == scopeOrDefault(input.scope)
      id == FoundationIdFor(m.nextFoundationId, scope)
      foundation ==
        [id |-> id, title |-> input.title,
         default_behavior |-> input.default_behavior,
         context_tags |-> input.context_tags,
         confidence |-> 1, scope |-> scope,
         origin_project |-> input.origin_project,
         validated_in |-> IF input.origin_project # NoProject
                            THEN <<input.origin_project>> ELSE <<>>,
         source_pressures |-> input.source_pressures]
      d1 == [d EXCEPT !.foundations = Append(d.foundations, foundation)]
  IN [disk |-> markAllPromoted(d1, input.source_pressures, id),
      mem  |-> [m EXCEPT !.nextFoundationId = m.nextFoundationId + 1],
      err  |-> "none",
      foundation |-> foundation]

\* ---------------------------------------------------------------------------
\* initialize
\* ---------------------------------------------------------------------------

\* restoreActiveCase without the existsSync test of the case: any marker is restored
restoreActiveCaseUnchecked(d, m) ==
  IF d.marker = NoCase THEN [disk |-> d, mem |-> m]
  ELSE [disk |-> d, mem |-> [m EXCEPT !.activeCase = d.marker]]

\* restores the pointer from .active-case; a marker naming no existing case is unlinked
restoreActiveCase(d, m) ==
  IF d.marker = NoCase THEN [disk |-> d, mem |-> m]
  ELSE IF caseExists(d, d.marker)
    THEN [disk |-> d, mem |-> [m EXCEPT !.activeCase = d.marker]]
  ELSE [disk |-> [d EXCEPT !.marker = NoCase], mem |-> m]

\* if (num >= next) next = num + 1, for the number captured from id ("" = no match)
Bump(next, digits) ==
  IF digits # <<>> /\ parseInt(digits) >= next THEN parseInt(digits) + 1 ELSE next

\* the inner loop of initializeCounters over the events of one case
RECURSIVE scanPressures(_, _, _)
scanPressures(pressures, k, next) ==
  IF k > Len(pressures) THEN next
  ELSE scanPressures(pressures, k + 1,
         Bump(next, CaptureDigitsAfter(pressures[k].id, <<"P", "E", "-">>)))

\* the loop of initializeCounters over the cases
RECURSIVE scanCases(_, _, _, _)
scanCases(d, cases, k, m) ==
  IF k > Len(cases) THEN m
  ELSE scanCases(d, cases, k + 1,
         [m EXCEPT !.nextCaseId = Bump(m.nextCaseId, LeadingDigits(cases[k].id)),
                   !.nextPressureId =
                      scanPressures(getPressureEvents(d, cases[k].id), 1, m.nextPressureId)])

\* the loop over the foundations with the pattern anchored, /^F-(\d+)/: GF- ids are missed
RECURSIVE scanFoundationsAnchored(_, _, _)
scanFoundationsAnchored(foundations, k, next) ==
  IF k > Len(foundations) THEN next
  ELSE scanFoundationsAnchored(foundations, k + 1,
         Bump(next, IF Len(foundations[k].id) >= 2
                       /\ SubSeq(foundations[k].id, 1, 2) = <<"F", "-">>
                      THEN LeadingDigits(DropFirst(foundations[k].id, 2))
                      ELSE <<>>))

\* the loop of initializeCounters over the foundations (/(?:G?F)-(\d+)/)
RECURSIVE scanFoundations(_, _, _)
scanFoundations(foundations, k, next) ==
  IF k > Len(foundations) THEN next
  ELSE scanFoundations(foundations, k + 1,
         Bump(next, CaptureDigitsAfter(foundations[k].id, <<"F", "-">>)))

initializeCounters(d, m) ==
  LET m1 == scanCases(d, listCases(d), 1, m)
  IN [m1 EXCEPT !.nextFoundationId = scanFoundations(d.foundations, 1, m1.nextFoundationId)]

initialize(d, m) ==
  LET r == restoreActiveCase(d, m)
  IN [disk |-> r.disk, mem |-> initializeCounters(r.disk, r.mem)]

\* ---------------------------------------------------------------------------
\* Foundations of one layer: getFoundations, removeFoundation
\* ---------------------------------------------------------------------------

\* s.includes(pat)
Includes(s, pat) ==
  \E i \in 1..(Len(s) + 1) :
    i + Len(pat) - 1 <= Len(s) /\ SubSeq(s, i, i + Len(pat) - 1) = pat

\* no filters given
NoFilters == [none |-> TRUE]

\* filters?.context_tags?.length
hasTagFilter(filters) ==
  "context_tags" \in DOMAIN filters /\ Len(filters.context_tags) > 0

\* filters?.min_confidence !== undefined
hasMinConfidence(filters) == "min_confidence" \in DOMAIN filters

\* f.context_tags.some((t) => filters.context_tags.includes(t))
someTagIn(f, tags) == \E i \in DOMAIN f.context_tags : f.context_tags[i] \in Range(tags)

\* getFoundations of one layer: the collection, filtered by tag overlap and by
\* minimum confidence when these filters are given
getFoundations(d, filters) ==
  LET passes(f) ==
        /\ hasTagFilter(filters) => someTagIn(f, filters.context_tags)
        /\ hasMinConfidence(filters) => f.confidence >= filters.min_confidence
  IN SelectSeq(d.foundations, passes)

\* removeFoundation: drops the entry with this id from the collection and
\* reports whether there was one; a missing id or collection is not an error
removeFoundation(d, foundationId) ==
  LET keep(f) == f.id # foundationId
  IN [disk  |-> [d EXCEPT !.foundations = SelectSeq(d.foundations, keep)],
      found |-> \E i \in DOMAIN d.foundations : d.foundations[i].id = foundationId]

\* ---------------------------------------------------------------------------
\* Layer discovery. A path is the sequence of its components, "/" is <<>>;
\* markers is the set of directories that contain a .decision-os folder.
\* ---------------------------------------------------------------------------

Root == <<>>

\* dirname(path)
dirname(path) == IF path = Root THEN Root ELSE SubSeq(path, 1, Len(path) - 1)

\* join(path, name)
join(path, name) == Append(path, name)

DosFolder == ".decision-os"

\* homedir()
HomeDir == <<"home", "u">>

\* join(homedir(), ".decision-os")
GlobalPath == join(HomeDir, DosFolder)

\* the while loop of discoverLayers from currentPath upwards
RECURSIVE walkUp(_, _, _)
walkUp(markers, currentPath, found) ==
  IF currentPath = Root \/ currentPath = dirname(currentPath) THEN found
  ELSE walkUp(markers, dirname(currentPath),
         IF currentPath \in markers /\ join(currentPath, DosFolder) \notin Range(found)
           THEN Append(found, join(currentPath, DosFolder))
           ELSE found)

\* the base paths of the layers, nearest first, ~/.decision-os appended when it
\* exists and the walk did not meet it
discoverLayers(markers, startPath) ==
  LET start  == IF startPath # Root /\ startPath[Len(startPath)] = DosFolder
                  THEN dirname(startPath) ELSE startPath
      walked == walkUp(markers, start, <<>>)
  IN IF HomeDir \in markers /\ GlobalPath \notin Range(walked)
       THEN Append(walked, GlobalPath)
       ELSE walked

\* ---------------------------------------------------------------------------
\* HierarchicalDecisionOSStorage. ls is the list of its layers, nearest first,
\* each [basePath, disk, mem]; the constructor raises when the list is empty.
\* ---------------------------------------------------------------------------

\* this.projectLayer = this.layers[0]
projectLayer == 1

\* the index of this.globalLayer, 0 for null
globalLayer(ls) == IF Len(ls) > 1 THEN Len(ls) ELSE 0

\* the layers of a store just constructed and initialized over empty layer folders
newLayers(markers, startPath) ==
  LET paths == discoverLayers(markers, startPath)
  IN [i \in DOMAIN paths |->
        [basePath |-> paths[i],
         disk |-> initialize(EmptyDisk, NewInstance).disk,
         mem  |-> initialize(EmptyDisk, NewInstance).mem]]

\* the disk and instance state an operation left, stored in the last layer
withLayerLast(ls, i, d, m) == [ls EXCEPT ![Len(ls)] = [@ EXCEPT !.disk = d, !.mem = m]]

\* the layer at index i with the disk and instance state an operation left
withLayer(ls, i, d, m) == [ls EXCEPT ![i] = [@ EXCEPT !.disk = d, !.mem = m]]

\* config.project of the project layer
configProject == <<"p">>

\* the annotated foundations of the layers from index k on, in layer order
RECURSIVE annotatedFrom(_, _, _)
annotatedFrom(ls, k, filters) ==
  IF k > Len(ls) THEN <<>>
  ELSE LET foundations == getFoundations(ls[k].disk, filters)
           isGlobal == ls[k].basePath = GlobalPath
       IN [i \in DOMAIN foundations |->
             [foundation    |-> foundations[i],
              _source_layer |-> ls[k].basePath,
              _source_scope |-> IF isGlobal THEN "GLOBAL" ELSE "PROJECT"]]
          \o annotatedFrom(ls, k + 1, filters)

\* the merged listing keyed by id in place of title
RECURSIVE mergeFromKeyedById(_, _, _, _)
mergeFromKeyedById(all, k, seen, merged) ==
  IF k > Len(all) THEN merged
  ELSE IF all[k].foundation.id \in seen
    THEN mergeFromKeyedById(all, k + 1, seen, merged)
  ELSE mergeFromKeyedById(all, k + 1, seen \cup {all[k].foundation.id},
                          Append(merged, all[k]))

\* the loop body of the merged listing: an entry is pushed when its title is not
\* yet in seen
RECURSIVE mergeFrom(_, _, _, _)
mergeFrom(all, k, seen, merged) ==
  IF k > Len(all) THEN merged
  ELSE IF all[k].foundation.title \in seen
    THEN mergeFrom(all, k + 1, seen, merged)
  ELSE mergeFrom(all, k + 1, seen \cup {all[k].foundation.title}, Append(merged, all[k]))

\* HierarchicalDecisionOSStorage.getFoundations
mergedFoundations(ls, filters) == mergeFrom(annotatedFrom(ls, 1, filters), 1, {}, <<>>)

\* the trigger words of the contradiction heuristic
Always == <<"a", "l", "w", "a", "y", "s">>

Never == <<"n", "e", "v", "e", "r">>

Prefer == <<"p", "r", "e", "f", "e", "r">>

Avoid == <<"a", "v", "o", "i", "d">>

contradictory(pfBehavior, gfBehavior) ==
  \/ Includes(pfBehavior, Always) /\ Includes(gfBehavior, Never)
  \/ Includes(pfBehavior, Never) /\ Includes(gfBehavior, Always)
  \/ Includes(pfBehavior, Prefer) /\ Includes(gfBehavior, Avoid)

\* pf.context_tags.filter((t) => gf.context_tags.includes(t))
overlappingTags(pf, gf) ==
  LET shared(t) == t \in Range(gf.context_tags) IN SelectSeq(pf.context_tags, shared)

\* index of the first global foundation whose title equals pf's ignoring case, 0 for none
titleMatch(pf, globalFoundations) ==
  IF \E j \in DOMAIN globalFoundations :
       toLowerCase(globalFoundations[j].title) = toLowerCase(pf.title)
    THEN CHOOSE j \in DOMAIN globalFoundations :
           /\ toLowerCase(globalFoundations[j].title) = toLowerCase(pf.title)
           /\ \A i \in 1..(j - 1) :
                toLowerCase(globalFoundations[i].title) # toLowerCase(pf.title)
    ELSE 0

\* the inner loop of detectConflicts: the contradictions of pf with the global
\* foundations from index j on
RECURSIVE tagConflictsFrom(_, _, _)
tagConflictsFrom(pf, globalFoundations, j) ==
  IF j > Len(globalFoundations) THEN <<>>
  ELSE LET gf == globalFoundations[j]
           tags == overlappingTags(pf, gf)
       IN (IF /\ Len(tags) > 0
              /\ pf.title # gf.title
              /\ contradictory(toLowerCase(pf.default_behavior),
                               toLowerCase(gf.default_behavior))
             THEN << [kind |-> "contradiction",
                      title |-> pf.title \o <<" ", "v", "s", " ">> \o gf.title,
                      global_foundation |-> gf,
                      project_foundation |-> pf,
                      tags |-> tags] >>
             ELSE <<>>)
          \o tagConflictsFrom(pf, globalFoundations, j + 1)

\* the outer loop of detectConflicts over the project foundations from index i on
RECURSIVE conflictsFrom(_, _, _)
conflictsFrom(projectFoundations, globalFoundations, i) ==
  IF i > Len(projectFoundations) THEN <<>>
  ELSE LET pf == projectFoundations[i]
           m  == titleMatch(pf, globalFoundations)
       IN (IF m # 0
             THEN << [kind |-> "shadows",
                      title |-> pf.title,
                      global_foundation |-> globalFoundations[m],
                      project_foundation |-> pf,
                      tags |-> <<>>] >>
             ELSE tagConflictsFrom(pf, globalFoundations, 1))
          \o conflictsFrom(projectFoundations, globalFoundations, i + 1)

detectConflicts(ls) ==
  IF globalLayer(ls) = 0 THEN <<>>
  ELSE conflictsFrom(getFoundations(ls[projectLayer].disk, NoFilters),
                     getFoundations(ls[globalLayer(ls)].disk, NoFilters), 1)

\* the layer a hierarchical promoteToFoundation writes to
promoteTarget(ls, scope) ==
  IF scope = "GLOBAL" /\ globalLayer(ls) # 0 THEN globalLayer(ls) ELSE projectLayer

\* HierarchicalDecisionOSStorage.promoteToFoundation
hPromoteToFoundation(ls, input) ==
  LET scope  == scopeOrDefault(input.scope)
      originProject == IF input.origin_project # NoProject
                         THEN input.origin_project ELSE configProject
      target == promoteTarget(ls, scope)
      r == promoteToFoundation(ls[target].disk, ls[target].mem,
             [input EXCEPT !.scope = scope, !.origin_project = originProject])
  IN [layers |-> withLayer(ls, target, r.disk, r.mem),
      err |-> "none",
      foundation |-> r.foundation]

\* no reason given to elevateFoundation
NoReason == <<>>

\* `\n\n[Elevated from ${config.project}: ${input.reason}]`, "" without a reason
elevationNote(reason) ==
  IF reason = NoReason THEN <<>>
  ELSE <<"\n", "\n", "[">>
         \o <<"E", "l", "e", "v", "a", "t", "e", "d", " ", "f", "r", "o", "m", " ">>
         \o configProject \o <<":", " ">> \o reason \o <<"]">>

\* index of the first foundation with this id, 0 for none
foundationIndex(foundations, foundationId) ==
  IF \E i \in DOMAIN foundations : foundations[i].id = foundationId
    THEN CHOOSE i \in DOMAIN foundations :
           /\ foundations[i].id = foundationId
           /\ \A j \in 1..(i - 1) : foundations[j].id # foundationId
    ELSE 0

\* HierarchicalDecisionOSStorage.elevateFoundation
elevateFoundation(ls, foundation_id, reason) ==
  LET g == globalLayer(ls)
      projectFoundations == getFoundations(ls[projectLayer].disk, NoFilters)
      idx == foundationIndex(projectFoundations, foundation_id)
      foundation == projectFoundations[idx]
      r == promoteToFoundation(ls[g].disk, ls[g].mem,
             [title |-> foundation.title,
              default_behavior |-> foundation.default_behavior \o elevationNote(reason),
              context_tags |-> foundation.context_tags,
              source_pressures |-> foundation.source_pressures,
              scope |-> "GLOBAL",
              origin_project |-> configProject])
      ls1 == withLayer(ls, g, r.disk, r.mem)
      removed == removeFoundation(ls1[projectLayer].disk, foundation_id)
  IN IF g = 0 THEN [layers |-> ls, err |-> "NoGlobalLayer", foundation |-> NoFoundation]
     ELSE IF idx = 0 THEN [layers |-> ls, err |-> "NotFound", foundation |-> NoFoundation]
     ELSE [layers |-> withLayer(ls1, projectLayer, removed.disk, ls1[projectLayer].mem),
           err |-> "none",
           foundation |-> r.foundation]

\* ---------------------------------------------------------------------------
\* DecisionOSStorage.searchPressures and suggestReview
\* ---------------------------------------------------------------------------

\* the concatenation of the sequences of a sequence
RECURSIVE flat(_)
flat(seqs) == IF seqs = <<>> THEN <<>> ELSE flat(SubSeq(seqs, 1, Len(seqs) - 1)) \o seqs[Len(seqs)]

\* [...new Set(s)]: the distinct elements in order of first appearance
RECURSIVE distinctInOrder(_)
distinctInOrder(s) ==
  IF s = <<>> THEN <<>>
  ELSE LET init == distinctInOrder(SubSeq(s, 1, Len(s) - 1))
       IN IF s[Len(s)] \in Range(init) THEN init ELSE Append(init, s[Len(s)])

\* the pressure events of every case of the layer, in listCases order
allPressures(d) ==
  LET cases == listCases(d)
  IN flat([i \in DOMAIN cases |-> getPressureEvents(d, cases[i].id)])

\* searchPressures, on the field of a pressure event the model keeps: the
\* events one of whose context tags contains the lower-cased query
searchPressures(d, query) ==
  LET hit(p) == \E i \in DOMAIN p.context_tags :
                  Includes(toLowerCase(p.context_tags[i]), toLowerCase(query))
  IN SelectSeq(allPressures(d), hit)

\* pressures.filter(p => !p.promoted_to_foundation), every event counted as unpromoted
unpromotedIgnoringMark(pressures) == pressures

\* pressures.filter(p => !p.promoted_to_foundation)
unpromoted(pressures) ==
  LET open(p) == p.promoted_to_foundation = NoFoundation
  IN SelectSeq(pressures, open)

\* the COMPLETED cases, in listCases order
completedCases(d) ==
  LET done(c) == c.status = "COMPLETED"
  IN SelectSeq(listCases(d), done)

\* blockingForgetting
blockingForgetting(d) ==
  LET blocks(c) == c.regret = "0" /\ Len(unpromoted(getPressureEvents(d, c.id))) > 0
      blocking == SelectSeq(completedCases(d), blocks)
  IN [i \in DOMAIN blocking |->
        LET open == unpromoted(getPressureEvents(d, blocking[i].id))
        IN [case_id |-> blocking[i].id,
            title |-> blocking[i].title,
            unpromoted_pe_count |-> Len(open),
            pe_ids |-> [j \in DOMAIN open |-> open[j].id]]]

\* highRegretNoPE: regret && parseInt(regret) >= 2 && pressures.length === 0
highRegretNoPE(d) ==
  LET high(c) == /\ c.regret # NoOutcome
                 /\ parseInt(<<c.regret>>) >= 2
                 /\ Len(getPressureEvents(d, c.id)) = 0
      cases == SelectSeq(completedCases(d), high)
  IN [i \in DOMAIN cases |->
        [case_id |-> cases[i].id, title |-> cases[i].title, regret |-> cases[i].regret]]

\* allUnpromoted: the unpromoted events of the COMPLETED cases
allUnpromoted(d) ==
  LET cases == completedCases(d)
  IN flat([i \in DOMAIN cases |-> unpromoted(getPressureEvents(d, cases[i].id))])

\* tagGroups.get(tag): each event once for every occurrence of tag among its tags
tagGroup(pes, tag) ==
  flat([i \in DOMAIN pes |->
          LET same(t) == t = tag
              occurrences == SelectSeq(pes[i].context_tags, same)
          IN [j \in DOMAIN occurrences |-> pes[i]]])

\* the keys of tagGroups in insertion order
groupTags(pes) == distinctInOrder(flat([i \in DOMAIN pes |-> pes[i].context_tags]))

\* pes.map(p => p.id).sort().join(","): equal for two groups exactly when each
\* id occurs equally often in both
comboKey(pes) ==
  [id \in {pes[i].id : i \in DOMAIN pes} |->
     Cardinality({i \in DOMAIN pes : pes[i].id = id})]

\* sharedTags of a group
sharedTags(pes) ==
  LET inAll(t) == \A i \in DOMAIN pes : t \in Range(pes[i].context_tags)
  IN SelectSeq(distinctInOrder(flat([i \in DOMAIN pes |-> pes[i].context_tags])), inAll)

\* the loop over tagGroups from the k-th key on
RECURSIVE candidatesFrom(_, _, _, _)
candidatesFrom(pes, tags, k, seenPECombos) ==
  IF k > Len(tags) THEN <<>>
  ELSE LET group == tagGroup(pes, tags[k])
       IN IF Len(group) < 2 \/ comboKey(group) \in seenPECombos
            THEN candidatesFrom(pes, tags, k + 1, seenPECombos)
            ELSE <<[theme |-> tags[k],
                    pressure_events |-> [i \in DOMAIN group |-> group[i].id],
                    shared_tags |-> sharedTags(group)]>>
                 \o candidatesFrom(pes, tags, k + 1, seenPECombos \cup {comboKey(group)})

\* foundationCandidates
foundationCandidates(d) ==
  candidatesFrom(allUnpromoted(d), groupTags(allUnpromoted(d)), 1, {})

\* suggestReview; the summary text is a rendering of the three lists' lengths
suggestReview(d) ==
  [foundation_candidates |-> foundationCandidates(d),
   blocking_forgetting |-> blockingForgetting(d),
   high_regret_no_pe |-> highRegretNoPE(d)]

\* DecisionOSStorage.updateFoundation with updates {validated_in, confidence}
updateFoundation(d, foundationId, updates) ==
  LET idx == foundationIndex(d.foundations, foundationId)
      updated == [d.foundations[idx] EXCEPT !.validated_in = updates.validated_in,
                                            !.confidence = updates.confidence]
  IN IF idx = 0 THEN [disk |-> d, err |-> "NotFound", foundation |-> NoFoundation]
     ELSE [disk |-> [d EXCEPT !.foundations[idx] = updated],
           err |-> "none",
           foundation |-> updated]

\* validatedIn after `if (!validatedIn.includes(config.project)) push`
validatedInWith(validated_in, project) ==
  IF project \in Range(validated_in) THEN validated_in ELSE Append(validated_in, project)

\* newConfidence of validateFoundation
boostedConfidence(confidence, validatedIn) ==
  IF Len(validatedIn) >= 3 /\ confidence < 3 THEN Min(3, confidence + 1) ELSE confidence

\* HierarchicalDecisionOSStorage.validateFoundation by a store whose config.project is project
validateFoundation(ls, project, foundation_id) ==
  LET allFoundations == mergedFoundations(ls, NoFilters)
      hits == {i \in DOMAIN allFoundations : allFoundations[i].foundation.id = foundation_id}
      idx == CHOOSE i \in hits : \A j \in hits : i <= j
      found == allFoundations[idx]
      validatedIn == validatedInWith(found.foundation.validated_in, project)
      newConfidence == boostedConfidence(found.foundation.confidence, validatedIn)
      target == IF found._source_scope = "GLOBAL" /\ globalLayer(ls) # 0
                  THEN globalLayer(ls) ELSE projectLayer
      r == updateFoundation(ls[target].disk, foundation_id,
                            [validated_in |-> validatedIn, confidence |-> newConfidence])
  IN IF hits = {} THEN [layers |-> ls, err |-> "NotFound", foundation |-> NoFoundation]
     ELSE [layers |-> withLayer(ls, target, r.disk, ls[target].mem),
           err |-> r.err,
           foundation |-> r.foundation]

\* ---------------------------------------------------------------------------
\* Inputs offered to the operations
\* ---------------------------------------------------------------------------

\* titles given to createCase: "Fix 7"
Titles == {<<"F", "i", "x", " ", "7">>}

\* a case id that names no case of the layer
UnknownCase == <<"0", "0", "0", "0", "-", "n", "o", "n", "e">>

\* regret as the caller passes it: a number or a string; 4 is outside the schema
RegretInputs == {[num |-> n] : n \in 0..4} \cup {[str |-> s] : s \in Regret}

\* context_tags given to logPressure: ["DB"]
TagChoices == {<< <<"D", "B">> >>}

\* titles given to promoteToFoundation
FoundationTitles == {<<"T">>}

\* default_behavior given to promoteToFoundation: "Do"
Behaviors == {<<"D", "o">>}

\* context_tags given to promoteToFoundation: ["DB"]
FoundationTags == {<< <<"D", "B">> >>}

\* the label of the project, when the caller passes origin_project
ProjectName == <<"p">>

\* origin_project given to promoteToFoundation
OriginChoices == {NoProject, ProjectName}

RECURSIVE SeqOfNums(_)
SeqOfNums(S) ==
  IF S = {} THEN <<>>
  ELSE LET least == CHOOSE a \in S : \A b \in S : a <= b
       IN <<PressureIdFor(least)>> \o SeqOfNums(S \ {least})

\* source_pressures lists: the non-empty ascending lists of PE-0001 .. PE-<MaxPressures>,
\* whether or not such a record exists
SourceLists == {SeqOfNums(S) : S \in (SUBSET (1..MaxPressures)) \ {{}}}

\* ---------------------------------------------------------------------------
\* State
\* ---------------------------------------------------------------------------

VARIABLES
  disk,                \* the layer directory
  mem,                 \* the live store instance
  last,                \* history: the last call that completed, or the logPressure that raised
  maxCaseNumEver,      \* history: the highest sequence number createCase has assigned
  maxPressureNumEver,  \* history: the highest sequence number logPressure has assigned
  layers,              \* the layers of a HierarchicalDecisionOSStorage, nearest first
  arg,                 \* the arguments of the call in progress, where a call is observed
  result               \* the value the last observed call returned

vars == <<disk, mem, last, maxCaseNumEver, maxPressureNumEver, layers, arg, result>>

\* the variables of the hierarchical store and of the observed calls
hvars == <<layers, arg, result>>

\* no hierarchical store is constructed
NoLayers == <<>>

\* no call observed
NoCall == [op |-> "none"]

Max(a, b) == IF a >= b THEN a ELSE b

Init ==
  /\ disk = EmptyDisk
  /\ mem = initialize(EmptyDisk, NewInstance).mem
  /\ last = [op |-> "initialize", caseId |-> NoCase]
  /\ maxCaseNumEver = 0
  /\ maxPressureNumEver = 0
  /\ layers = NoLayers
  /\ arg = NoCall
  /\ result = NoCall

CreateCase ==
  /\ mem.nextCaseId <= MaxCases
  /\ \E title \in Titles :
       LET r == createCase(disk, mem, title)
       IN /\ disk' = r.disk
          /\ mem' = r.mem
          /\ last' = [op |-> "createCase", caseId |-> r.case.id]
          /\ maxCaseNumEver' = Max(maxCaseNumEver, mem.nextCaseId)
  /\ UNCHANGED maxPressureNumEver
  /\ UNCHANGED hvars

CloseCase ==
  /\ \E caseId \in (DOMAIN disk.cases) \cup {UnknownCase}, regret \in RegretInputs :
       LET r == closeCase(disk, mem, caseId, regret)
       IN /\ disk' = r.disk
          /\ mem' = r.mem
          /\ last' = IF r.err = "none"
                       THEN [op |-> "closeCase", caseId |-> caseId]
                       ELSE last
  /\ UNCHANGED <<maxCaseNumEver, maxPressureNumEver>>
  /\ UNCHANGED hvars

LogPressure ==
  /\ mem.nextPressureId <= MaxPressures
  /\ \E case_id \in (DOMAIN disk.cases) \cup {NoCase, UnknownCase},
        context_tags \in TagChoices :
       LET r == logPressure(disk, mem, case_id, context_tags)
       IN /\ disk' = r.disk
          /\ mem' = r.mem
          /\ last' = IF r.err = "none"
                       THEN [op |-> "logPressure", caseId |-> r.event.case_id]
                       ELSE [op |-> "logPressureRaised", caseId |-> case_id]
          /\ maxPressureNumEver' =
               IF r.err = "none" THEN Max(maxPressureNumEver, mem.nextPressureId)
               ELSE maxPressureNumEver
  /\ UNCHANGED maxCaseNumEver
  /\ UNCHANGED hvars

PromoteToFoundation ==
  /\ mem.nextFoundationId <= MaxFoundations
  /\ \E title \in FoundationTitles, default_behavior \in Behaviors,
        context_tags \in FoundationTags, scope \in ScopeInputs,
        source_pressures \in SourceLists, origin_project \in OriginChoices :
       LET r == promoteToFoundation(disk, mem,
                  [title |-> title, default_behavior |-> default_behavior,
                   context_tags |-> context_tags, scope |-> scope,
                   source_pressures |-> source_pressures,
                   origin_project |-> origin_project])
       IN /\ disk' = r.disk
          /\ mem' = r.mem
  /\ last' = [op |-> "promoteToFoundation", caseId |-> NoCase]
  /\ UNCHANGED <<maxCaseNumEver, maxPressureNumEver>>
  /\ UNCHANGED hvars

\* set_active_case of the adapter (an existing case) and setActiveCase(null)
SetActiveCase ==
  /\ \E caseId \in (DOMAIN disk.cases) \cup {NoCase} :
       LET r == setActiveCase(disk, mem, caseId)
       IN /\ disk' = r.disk
          /\ mem' = r.mem
          /\ last' = [op |-> "setActiveCase", caseId |-> caseId]
  /\ UNCHANGED <<maxCaseNumEver, maxPressureNumEver>>
  /\ UNCHANGED hvars

\* the process ends; a new DecisionOSStorage on the same directory is initialized
Restart ==
  /\ LET r == initialize(disk, NewInstance)
     IN /\ disk' = r.disk
        /\ mem' = r.mem
  /\ last' = [op |-> "initialize", caseId |-> NoCase]
  /\ UNCHANGED <<maxCaseNumEver, maxPressureNumEver>>
  /\ UNCHANGED hvars

Next ==
  \/ CreateCase
  \/ CloseCase
  \/ LogPressure
  \/ PromoteToFoundation
  \/ SetActiveCase
  \/ Restart

Spec == Init /\ [][Next]_vars

\* ---------------------------------------------------------------------------
\* Identifier format: createCase on a store at a sampled counter value, with
\* titles enumerated over a small alphabet, short and long enough to be cut
\* ---------------------------------------------------------------------------

\* longest short title, in characters
MaxTitleLen == 2

FormatChars == {"a", "B", "7", " ", "!", "-"}

ShortTitles == UNION {[1..n -> FormatChars] : n \in 1..MaxTitleLen}

\* a prefix one character short of the slug limit
LongPrefix == [i \in 1..(SlugMaxLen - 1) |-> "a"]

FormatTitles == ShortTitles \cup {LongPrefix \o t : t \in ShortTitles}

\* counter values: around the width of the zero padding
CounterSamples == {1, 42, 9999, 10000}

\* an empty layer whose store instance has already assigned n - 1 case numbers
InitFormat ==
  /\ disk = EmptyDisk
  /\ \E n \in CounterSamples :
       /\ mem = [NewInstance EXCEPT !.nextCaseId = n]
       /\ maxCaseNumEver = n - 1
  /\ last = [op |-> "initialize", caseId |-> NoCase]
  /\ maxPressureNumEver = 0
  /\ layers = NoLayers
  /\ arg = NoCall
  /\ result = NoCall

FormatCreate ==
  /\ DOMAIN disk.cases = {}
  /\ \E title \in FormatTitles :
       LET r == createCase(disk, mem, title)
       IN /\ disk' = r.disk
          /\ mem' = r.mem
          /\ last' = [op |-> "createCase", caseId |-> r.case.id]
          /\ maxCaseNumEver' = Max(maxCaseNumEver, mem.nextCaseId)
  /\ UNCHANGED maxPressureNumEver
  /\ UNCHANGED hvars

NextFormat == FormatCreate

SpecFormat == InitFormat /\ [][NextFormat]_vars

\* ---------------------------------------------------------------------------
\* SpecLayers: one HierarchicalDecisionOSStorage over the layers discovered from
\* the workspace directory; units and divergence records live in the nearest
\* layer, foundations are promoted into the nearest or the last layer and
\* elevated from the nearest to the last
\* ---------------------------------------------------------------------------

\* createCase is offered while the case counter of the nearest layer is at most LMaxCases
LMaxCases == 1

\* logPressure is offered while its pressure counter is at most LMaxPressures
LMaxPressures == 2

\* foundations are created in a layer while its foundation counter is at most LMaxFoundations
LMaxFoundations == 2

\* the workspace directory /home/u/mono/app and its parent /home/u/mono
AppDir == <<"home", "u", "mono", "app">>

MonoDir == <<"home", "u", "mono">>

\* the sets of directories holding a .decision-os folder: the workspace alone,
\* with ~/.decision-os, with a layer in the parent directory, with both
LayerMarkerSets ==
  {{AppDir}, {AppDir, HomeDir}, {AppDir, MonoDir}, {AppDir, MonoDir, HomeDir}}

\* source_pressures lists given through the hierarchical store
LSourceLists == {SeqOfNums(S) : S \in (SUBSET (1..LMaxPressures)) \ {{}}}

\* regret values given to closeCase through the hierarchical store
LRegretInputs == {[num |-> 0], [num |-> 1]}

\* reasons given to elevateFoundation: none, "r"
Reasons == {NoReason, <<"r">>}

\* queries given to searchPressures: "db"
SearchQueries == {<<"d", "b">>}

\* a foundation id that names no foundation
UnknownFoundation == <<"F", "-", "9", "9", "9", "9">>

\* the variables of the single store, unused while a hierarchical store runs
svars == <<disk, mem, last, maxCaseNumEver, maxPressureNumEver>>

InitSingleUnused ==
  /\ disk = EmptyDisk
  /\ mem = NewInstance
  /\ last = [op |-> "none", caseId |-> NoCase]
  /\ maxCaseNumEver = 0
  /\ maxPressureNumEver = 0

InitLayers ==
  /\ InitSingleUnused
  /\ \E markers \in LayerMarkerSets : layers = newLayers(markers, AppDir)
  /\ arg = NoCall
  /\ result = NoCall

LCreateCase ==
  /\ layers[projectLayer].mem.nextCaseId <= LMaxCases
  /\ \E title \in Titles :
       LET r == createCase(layers[projectLayer].disk, layers[projectLayer].mem, title)
       IN /\ layers' = withLayer(layers, projectLayer, r.disk, r.mem)
          /\ result' = [op |-> "createCase", err |-> r.err]
  /\ UNCHANGED <<svars, arg>>

LLogPressure ==
  /\ layers[projectLayer].mem.nextPressureId <= LMaxPressures
  /\ \E case_id \in (DOMAIN layers[projectLayer].disk.cases) \cup {NoCase},
        context_tags \in TagChoices :
       LET r == logPressure(layers[projectLayer].disk, layers[projectLayer].mem,
                            case_id, context_tags)
       IN /\ layers' = withLayer(layers, projectLayer, r.disk, r.mem)
          /\ result' = [op |-> "logPressure", err |-> r.err]
  /\ UNCHANGED <<svars, arg>>

LCloseCase ==
  /\ \E caseId \in DOMAIN layers[projectLayer].disk.cases, regret \in LRegretInputs :
       LET r == closeCase(layers[projectLayer].disk, layers[projectLayer].mem,
                          caseId, regret)
       IN /\ layers' = withLayer(layers, projectLayer, r.disk, r.mem)
          /\ result' = [op |-> "closeCase", err |-> r.err]
  /\ UNCHANGED <<svars, arg>>

LPromoteToFoundation ==
  /\ \E title \in FoundationTitles, default_behavior \in Behaviors,
        context_tags \in FoundationTags, scope \in ScopeInputs,
        source_pressures \in LSourceLists :
       /\ layers[promoteTarget(layers, scopeOrDefault(scope))].mem.nextFoundationId
            <= LMaxFoundations
       /\ LET r == hPromoteToFoundation(layers,
                      [title |-> title, default_behavior |-> default_behavior,
                       context_tags |-> context_tags, scope |-> scope,
                       source_pressures |-> source_pressures,
                       origin_project |-> NoProject])
          IN /\ layers' = r.layers
             /\ result' = [op |-> "promoteToFoundation", err |-> r.err]
  /\ UNCHANGED <<svars, arg>>

LElevateFoundation ==
  /\ \E foundation_id \in
          {layers[projectLayer].disk.foundations[i].id :
             i \in DOMAIN layers[projectLayer].disk.foundations} \cup {UnknownFoundation},
        reason \in Reasons :
       /\ globalLayer(layers) # 0 =>
            layers[globalLayer(layers)].mem.nextFoundationId <= LMaxFoundations
       /\ LET r == elevateFoundation(layers, foundation_id, reason)
          IN /\ layers' = r.layers
             /\ result' = [op |-> "elevateFoundation", err |-> r.err]
  /\ UNCHANGED <<svars, arg>>

LSetActiveCase ==
  /\ \E caseId \in (DOMAIN layers[projectLayer].disk.cases) \cup {NoCase} :
       LET r == setActiveCase(layers[projectLayer].disk, layers[projectLayer].mem, caseId)
       IN /\ layers' = withLayer(layers, projectLayer, r.disk, r.mem)
          /\ result' = [op |-> "setActiveCase", err |-> "none"]
  /\ UNCHANGED <<svars, arg>>

\* searchPressures and suggestReview return what they find in the nearest layer
LSearchPressures ==
  /\ \E query \in SearchQueries :
       result' = [op |-> "searchPressures", err |-> "none",
                  value |-> Len(searchPressures(layers[projectLayer].disk, query))]
  /\ UNCHANGED <<svars, arg, layers>>

LSuggestReview ==
  /\ result' = [op |-> "suggestReview", err |-> "none",
                value |-> Len(suggestReview(layers[projectLayer].disk).blocking_forgetting)]
  /\ UNCHANGED <<svars, arg, layers>>

NextLayers ==
  \/ LCreateCase
  \/ LLogPressure
  \/ LCloseCase
  \/ LPromoteToFoundation
  \/ LElevateFoundation
  \/ LSetActiveCase
  \/ LSearchPressures
  \/ LSuggestReview

SpecLayers == InitLayers /\ [][NextLayers]_vars

\* ---------------------------------------------------------------------------
\* SpecValidate: foundations are promoted, validated and elevated through the
\* hierarchical store of the workspace; stores opened by other projects on
\* the same user-wide layer validate its records, and a store opened on the
\* parent directory promotes into the parent's layer.
\* ---------------------------------------------------------------------------

\* foundations are created in a layer while its foundation counter is at most VMaxFoundations
VMaxFoundations == 1

\* titles given to promoteToFoundation
ValidateTitles == {<<"T">>, <<"U">>}

\* origin_project given to the hierarchical promoteToFoundation: none, "q"
ValidateOrigins == {NoProject, <<"q">>}

\* config.project of the stores other projects open on the user-wide layer
OtherProjects == {<<"a">>}

\* config.project of the layer in the parent directory
ParentProject == <<"m">>

\* the ids of the foundations of every layer
AllFoundationIds(ls) ==
  UNION {{ls[k].disk.foundations[i].id : i \in DOMAIN ls[k].disk.foundations} :
           k \in DOMAIN ls}

InitValidate ==
  /\ InitSingleUnused
  /\ \E markers \in LayerMarkerSets : layers = newLayers(markers, AppDir)
  /\ arg = NoCall
  /\ result = NoCall

VPromoteToFoundation ==
  /\ \E title \in ValidateTitles, scope \in FoundationScope,
        origin_project \in ValidateOrigins :
       /\ layers[promoteTarget(layers, scope)].mem.nextFoundationId <= VMaxFoundations
       /\ LET r == hPromoteToFoundation(layers,
                      [title |-> title, default_behavior |-> <<"D", "o">>,
                       context_tags |-> << <<"D", "B">> >>, scope |-> scope,
                       source_pressures |-> <<>>,
                       origin_project |-> origin_project])
          IN /\ layers' = r.layers
             /\ result' = [op |-> "promoteToFoundation", err |-> r.err]
  /\ UNCHANGED <<svars, arg>>

VValidateFoundation ==
  /\ \E foundation_id \in AllFoundationIds(layers) \cup {UnknownFoundation} :
       LET r == validateFoundation(layers, configProject, foundation_id)
       IN /\ layers' = r.layers
          /\ result' = [op |-> "validateFoundation", err |-> r.err]
  /\ UNCHANGED <<svars, arg>>

VElevateFoundation ==
  /\ \E foundation_id \in
          {layers[projectLayer].disk.foundations[i].id :
             i \in DOMAIN layers[projectLayer].disk.foundations} \cup {UnknownFoundation},
        reason \in Reasons :
       /\ globalLayer(layers) # 0 =>
            layers[globalLayer(layers)].mem.nextFoundationId <= VMaxFoundations
       /\ LET r == elevateFoundation(layers, foundation_id, reason)
          IN /\ layers' = r.layers
             /\ result' = [op |-> "elevateFoundation", err |-> r.err]
  /\ UNCHANGED <<svars, arg>>

\* the store of another project, whose layers are its own empty project layer and
\* the user-wide layer, validates a record of the user-wide layer
VOtherProjectValidates ==
  /\ \E k \in 2..Len(layers), project \in OtherProjects :
       /\ layers[k].basePath = GlobalPath
       /\ \E i \in DOMAIN layers[k].disk.foundations :
            LET own == [basePath |-> <<"home", "u", "other", DosFolder>>,
                        disk |-> initialize(EmptyDisk, NewInstance).disk,
                        mem  |-> initialize(EmptyDisk, NewInstance).mem]
                r == validateFoundation(<<own, layers[k]>>, project,
                                        layers[k].disk.foundations[i].id)
            IN /\ layers' = [layers EXCEPT ![k] = r.layers[2]]
               /\ result' = [op |-> "validateFoundation", err |-> r.err]
  /\ UNCHANGED <<svars, arg>>

\* a store opened on the parent directory promotes a project-scope foundation
\* into the parent's layer, the nearest of its layers
VParentPromotes ==
  /\ Len(layers) >= 2
  /\ layers[2].basePath = join(MonoDir, DosFolder)
  /\ layers[2].mem.nextFoundationId <= VMaxFoundations
  /\ \E title \in ValidateTitles :
       LET r == hPromoteToFoundation(SubSeq(layers, 2, Len(layers)),
                   [title |-> title, default_behavior |-> <<"D", "o">>,
                    context_tags |-> << <<"D", "B">> >>, scope |-> "PROJECT",
                    source_pressures |-> <<>>,
                    origin_project |-> ParentProject])
       IN /\ layers' = <<layers[1]>> \o r.layers
          /\ result' = [op |-> "promoteToFoundation", err |-> r.err]
  /\ UNCHANGED <<svars, arg>>

NextValidate ==
  \/ VPromoteToFoundation
  \/ VValidateFoundation
  \/ VElevateFoundation
  \/ VOtherProjectValidates
  \/ VParentPromotes

SpecValidate == InitValidate /\ [][NextValidate]_vars

\* ---------------------------------------------------------------------------
\* SpecDiscover: the constructor applied to a start path and a set of
\* directories that hold a .decision-os folder
\* ---------------------------------------------------------------------------

\* new HierarchicalDecisionOSStorage(workspacePath): the layer paths, the index of
\* projectLayer and of globalLayer (0 for null), or the error raised
construct(markers, workspacePath) ==
  LET paths == discoverLayers(markers, workspacePath)
  IN IF Len(paths) = 0
       THEN [err |-> "NoLayerFound", paths |-> paths, project |-> 0, global |-> 0]
       ELSE [err |-> "none", paths |-> paths, project |-> projectLayer,
             global |-> globalLayer(paths)]

\* the directories that may hold a .decision-os folder: the workspace, its
\* parent, the home directory, the parent of the home directory, /tmp
DiscoverDirs == {AppDir, MonoDir, HomeDir, <<"home">>, <<"tmp">>}

\* the start paths: the workspace, its .decision-os folder, its parent, the
\* home directory, a directory outside the home directory, the root
DiscoverStarts ==
  {AppDir, join(AppDir, DosFolder), MonoDir, HomeDir, <<"tmp", "x">>, Root}

InitDiscover ==
  /\ InitSingleUnused
  /\ layers = NoLayers
  /\ \E markers \in SUBSET DiscoverDirs, workspacePath \in DiscoverStarts :
       arg = [op |-> "construct", markers |-> markers, workspacePath |-> workspacePath]
  /\ result = NoCall

Discover ==
  /\ result' = [op |-> "construct", value |-> construct(arg.markers, arg.workspacePath)]
  /\ UNCHANGED <<svars, layers, arg>>

NextDiscover == Discover

SpecDiscover == InitDiscover /\ [][NextDiscover]_vars

\* ---------------------------------------------------------------------------
\* SpecPointer: one DecisionOSStorage whose active pointer is set to existing
\* and to unknown ids, whose cases are closed, and whose directory is
\* reopened by new instances or initialized again by the same instance
\* ---------------------------------------------------------------------------

\* createCase is offered while the case counter is at most PMaxCases
PMaxCases == 2

\* regret values given to closeCase
PRegretInputs == {[num |-> 0], [num |-> 1]}

InitPointer ==
  /\ disk = EmptyDisk
  /\ mem = initialize(EmptyDisk, NewInstance).mem
  /\ last = [op |-> "initialize", caseId |-> NoCase]
  /\ maxCaseNumEver = 0
  /\ maxPressureNumEver = 0
  /\ layers = NoLayers
  /\ arg = NoCall
  /\ result = NoCall

PCreateCase ==
  /\ mem.nextCaseId <= PMaxCases
  /\ \E title \in Titles :
       LET r == createCase(disk, mem, title)
       IN /\ disk' = r.disk
          /\ mem' = r.mem
          /\ last' = [op |-> "createCase", caseId |-> r.case.id]
  /\ UNCHANGED <<maxCaseNumEver, maxPressureNumEver, hvars>>

PSetActiveCase ==
  /\ \E caseId \in (DOMAIN disk.cases) \cup {NoCase, UnknownCase} :
       LET r == setActiveCase(disk, mem, caseId)
       IN /\ disk' = r.disk
          /\ mem' = r.mem
          /\ last' = [op |-> "setActiveCase", caseId |-> caseId]
  /\ UNCHANGED <<maxCaseNumEver, maxPressureNumEver, hvars>>

PCloseCase ==
  /\ \E caseId \in DOMAIN disk.cases, regret \in PRegretInputs :
       LET r == closeCase(disk, mem, caseId, regret)
       IN /\ disk' = r.disk
          /\ mem' = r.mem
          /\ last' = [op |-> "closeCase", caseId |-> caseId]
  /\ UNCHANGED <<maxCaseNumEver, maxPressureNumEver, hvars>>

\* a new DecisionOSStorage on the same directory is initialized; last.caseId
\* is the content of .active-case it found
PRestart ==
  /\ LET r == initialize(disk, NewInstance)
     IN /\ disk' = r.disk
        /\ mem' = r.mem
  /\ last' = [op |-> "initialize", caseId |-> disk.marker]
  /\ UNCHANGED <<maxCaseNumEver, maxPressureNumEver, hvars>>

\* initialize is called once more on the running instance
PInitializeAgain ==
  /\ LET r == initialize(disk, mem)
     IN /\ disk' = r.disk
        /\ mem' = r.mem
  /\ last' = [op |-> "initializeAgain", caseId |-> disk.marker]
  /\ UNCHANGED <<maxCaseNumEver, maxPressureNumEver, hvars>>

NextPointer ==
  \/ PCreateCase
  \/ PSetActiveCase
  \/ PCloseCase
  \/ PRestart
  \/ PInitializeAgain

SpecPointer == InitPointer /\ [][NextPointer]_vars

\* ---------------------------------------------------------------------------
\* SpecReview: one DecisionOSStorage whose cases receive divergence records
\* with varied tag lists, are closed with varied regret, whose records are
\* promoted one at a time, and on which suggestReview is called
\* ---------------------------------------------------------------------------

\* createCase is offered while the case counter is at most RMaxCases
RMaxCases == 2

\* logPressure is offered while the pressure counter is at most RMaxPressures
RMaxPressures == 3

\* promoteToFoundation is offered while the foundation counter is at most RMaxFoundations
RMaxFoundations == 1

\* context_tags given to logPressure: ["A"], ["A", "B"], ["A", "A"]
ReviewTags ==
  {<< <<"A">> >>, << <<"A">>, <<"B">> >>, << <<"A">>, <<"A">> >>}

\* regret values given to closeCase
ReviewRegrets == {[num |-> 0], [num |-> 2]}

InitReview ==
  /\ disk = EmptyDisk
  /\ mem = initialize(EmptyDisk, NewInstance).mem
  /\ last = [op |-> "initialize", caseId |-> NoCase]
  /\ maxCaseNumEver = 0
  /\ maxPressureNumEver = 0
  /\ layers = NoLayers
  /\ arg = NoCall
  /\ result = NoCall

RCreateCase ==
  /\ mem.nextCaseId <= RMaxCases
  /\ LET r == createCase(disk, mem, <<"T">>)
     IN /\ disk' = r.disk
        /\ mem' = r.mem
  /\ result' = [op |-> "createCase"]
  /\ UNCHANGED <<last, maxCaseNumEver, maxPressureNumEver, layers, arg>>

RLogPressure ==
  /\ mem.nextPressureId <= RMaxPressures
  /\ \E case_id \in DOMAIN disk.cases, context_tags \in ReviewTags :
       LET r == logPressure(disk, mem, case_id, context_tags)
       IN /\ disk' = r.disk
          /\ mem' = r.mem
  /\ result' = [op |-> "logPressure"]
  /\ UNCHANGED <<last, maxCaseNumEver, maxPressureNumEver, layers, arg>>

RCloseCase ==
  /\ \E caseId \in DOMAIN disk.cases, regret \in ReviewRegrets :
       LET r == closeCase(disk, mem, caseId, regret)
       IN /\ disk' = r.disk
          /\ mem' = r.mem
  /\ result' = [op |-> "closeCase"]
  /\ UNCHANGED <<last, maxCaseNumEver, maxPressureNumEver, layers, arg>>

RPromoteToFoundation ==
  /\ mem.nextFoundationId <= RMaxFoundations
  /\ \E n \in 1..RMaxPressures :
       LET r == promoteToFoundation(disk, mem,
                  [title |-> <<"T">>, default_behavior |-> <<"D", "o">>,
                   context_tags |-> << <<"A">> >>, scope |-> NoScope,
                   source_pressures |-> <<PressureIdFor(n)>>,
                   origin_project |-> NoProject])
       IN /\ disk' = r.disk
          /\ mem' = r.mem
  /\ result' = [op |-> "promoteToFoundation"]
  /\ UNCHANGED <<last, maxCaseNumEver, maxPressureNumEver, layers, arg>>

RSuggestReview ==
  /\ result' = [op |-> "suggestReview", value |-> suggestReview(disk)]
  /\ UNCHANGED <<svars, layers, arg>>

NextReview ==
  \/ RCreateCase
  \/ RLogPressure
  \/ RCloseCase
  \/ RPromoteToFoundation
  \/ RSuggestReview

SpecReview == InitReview /\ [][NextReview]_vars

\* ---------------------------------------------------------------------------
\* DecisionOSStorage.checkPolicy, and SpecPolicy: checkPolicy is called with
\* every drawn combination of signals on a store that also creates cases
\* ---------------------------------------------------------------------------

\* an optional signal that was not given
NoSignal == "undefined"

\* signals.affected_surface?.includes(x)
surfaceIncludes(signals, x) ==
  /\ signals.affected_surface # NoSignal
  /\ x \in Range(signals.affected_surface)

\* the first condition of checkPolicy
requireComparison(signals) ==
  \/ signals.reversibility = "HARD"
  \/ signals.risk_level = "HIGH"
  \/ signals.repo_scope = "CROSS_REPO"
  \/ surfaceIncludes(signals, "CORE_DOMAIN")
  \/ surfaceIncludes(signals, "DATA_MODEL")
  \/ surfaceIncludes(signals, "SECURITY_BOUNDARY")
  \/ signals.uncertainty = "HIGH"

\* the validation level with the STANDARD branch tested before the STRICT one
validationLevelStandardFirst(signals) ==
  IF \/ signals.risk_level = "MEDIUM"
     \/ signals.repo_scope = "CROSS_REPO"
     \/ surfaceIncludes(signals, "INTEGRATION")
     \/ surfaceIncludes(signals, "CORE_DOMAIN")
    THEN "STANDARD"
  ELSE IF \/ signals.risk_level = "HIGH"
          \/ signals.reversibility = "HARD"
          \/ surfaceIncludes(signals, "SECURITY_BOUNDARY")
          \/ surfaceIncludes(signals, "INFRA_DEPLOY")
          \/ surfaceIncludes(signals, "PERFORMANCE_CRITICAL")
          \/ surfaceIncludes(signals, "DATA_MODEL")
          \/ signals.uncertainty = "HIGH"
    THEN "STRICT"
  ELSE "BASIC"

\* the if / else-if that sets validationLevel
validationLevel(signals) ==
  IF \/ signals.risk_level = "HIGH"
     \/ signals.reversibility = "HARD"
     \/ surfaceIncludes(signals, "SECURITY_BOUNDARY")
     \/ surfaceIncludes(signals, "INFRA_DEPLOY")
     \/ surfaceIncludes(signals, "PERFORMANCE_CRITICAL")
     \/ surfaceIncludes(signals, "DATA_MODEL")
     \/ signals.uncertainty = "HIGH"
    THEN "STRICT"
  ELSE IF \/ signals.risk_level = "MEDIUM"
          \/ signals.repo_scope = "CROSS_REPO"
          \/ surfaceIncludes(signals, "INTEGRATION")
          \/ surfaceIncludes(signals, "CORE_DOMAIN")
    THEN "STANDARD"
  ELSE "BASIC"

\* checkPolicy; warnings holds one line exactly when the comparison is required
checkPolicy(signals) ==
  [require_options_comparison |-> requireComparison(signals),
   validation_level |-> validationLevel(signals),
   warnings |-> IF requireComparison(signals) THEN 1 ELSE 0]

\* createCase is offered while the case counter is at most PolicyMaxCases
PolicyMaxCases == 1

\* the affected_surface lists drawn: not given, empty, each canonical surface
\* alone, a project-specific surface, and pairs from different rows of the policy
PolicySurfaces ==
  {NoSignal, <<>>,
   <<"CORE_DOMAIN">>, <<"INTEGRATION">>, <<"DATA_MODEL">>, <<"INFRA_DEPLOY">>,
   <<"SECURITY_BOUNDARY">>, <<"UI_UX">>, <<"PERFORMANCE_CRITICAL">>, <<"GIS_SPATIAL">>,
   <<"UI_UX", "CORE_DOMAIN">>, <<"INTEGRATION", "INFRA_DEPLOY">>}

\* the signals drawn
PolicySignals ==
  [risk_level : {NoSignal, "LOW", "MEDIUM", "HIGH"},
   reversibility : {NoSignal, "EASY", "HARD"},
   repo_scope : {NoSignal, "BACKEND_ONLY", "CROSS_REPO"},
   affected_surface : PolicySurfaces,
   uncertainty : {NoSignal, "MEDIUM", "HIGH"}]

InitPolicy ==
  /\ disk = EmptyDisk
  /\ mem = initialize(EmptyDisk, NewInstance).mem
  /\ last = [op |-> "initialize", caseId |-> NoCase]
  /\ maxCaseNumEver = 0
  /\ maxPressureNumEver = 0
  /\ layers = NoLayers
  /\ arg \in PolicySignals
  /\ result = NoCall

PolicyCreateCase ==
  /\ mem.nextCaseId <= PolicyMaxCases
  /\ LET r == createCase(disk, mem, <<"T">>)
     IN /\ disk' = r.disk
        /\ mem' = r.mem
  /\ result' = [op |-> "createCase"]
  /\ UNCHANGED <<last, maxCaseNumEver, maxPressureNumEver, layers, arg>>

CheckPolicy ==
  /\ result' = [op |-> "checkPolicy", value |-> checkPolicy(arg)]
  /\ UNCHANGED <<svars, layers, arg>>

NextPolicy ==
  \/ PolicyCreateCase
  \/ CheckPolicy

SpecPolicy == InitPolicy /\ [][NextPolicy]_vars

\* ---------------------------------------------------------------------------
\* storageCache and getStorage, and SpecCache: one session of the adapter
\* asks for stores of several workspace paths and promotes foundations
\* through them. In SpecCache disk is the file system, a function from the
\* base paths of the layer folders to their content, and layers is
\* storageCache, a function from workspace paths to the layer instances
\* [basePath, mem] of the store cached for the path.
\* ---------------------------------------------------------------------------

\* a directory under the home directory that holds no .decision-os folder
OtherDir == <<"home", "u", "other">>

\* the directories of the session that hold a .decision-os folder
CacheMarkers == {AppDir, HomeDir}

\* the workspace paths asked for in the session
CachePaths == {AppDir, join(AppDir, DosFolder), OtherDir}

\* a foundation is promoted through an instance while its counter is at most CMaxFoundations
CMaxFoundations == 2

\* new Map()
EmptyCache == <<>>

\* the layers of the cached store of a path, each with the content of its folder
cachedLayers(cache, fs, path) ==
  [k \in DOMAIN cache[path] |->
     [basePath |-> cache[path][k].basePath,
      disk |-> fs[cache[path][k].basePath],
      mem |-> cache[path][k].mem]]

\* the file system after an operation left the layers ls
writtenFiles(fs, ls) ==
  [b \in DOMAIN fs |->
     IF \E k \in DOMAIN ls : ls[k].basePath = b
       THEN ls[CHOOSE k \in DOMAIN ls : ls[k].basePath = b].disk
       ELSE fs[b]]

\* the instances of the layers ls
instancesOf(ls) == [k \in DOMAIN ls |-> [basePath |-> ls[k].basePath, mem |-> ls[k].mem]]

\* createHierarchicalStorage(path) followed by storage.initialize()
createAndInitialize(fs, path) ==
  LET paths == discoverLayers(CacheMarkers, path)
  IN [k \in DOMAIN paths |->
        [basePath |-> paths[k],
         disk |-> initialize(fs[paths[k]], NewInstance).disk,
         mem |-> initialize(fs[paths[k]], NewInstance).mem]]

\* getStorage(workspacePath): the cache and the file system it leaves
getStorage(cache, fs, path) ==
  IF path \in DOMAIN cache THEN [cache |-> cache, fs |-> fs, err |-> "none"]
  ELSE IF construct(CacheMarkers, path).err # "none"
    THEN [cache |-> cache, fs |-> fs, err |-> construct(CacheMarkers, path).err]
  ELSE LET ls == createAndInitialize(fs, path)
       IN [cache |-> Put(cache, path, instancesOf(ls)),
           fs |-> writtenFiles(fs, ls),
           err |-> "none"]

InitCache ==
  /\ disk = [b \in {join(d, DosFolder) : d \in CacheMarkers} |-> EmptyDisk]
  /\ mem = NewInstance
  /\ last = [op |-> "none", caseId |-> NoCase]
  /\ maxCaseNumEver = 0
  /\ maxPressureNumEver = 0
  /\ layers = EmptyCache
  /\ arg = NoCall
  /\ result = NoCall

CGetStorage ==
  /\ \E path \in CachePaths :
       LET r == getStorage(layers, disk, path)
       IN /\ layers' = r.cache
          /\ disk' = r.fs
          /\ result' = [op |-> "getStorage", err |-> r.err]
  /\ UNCHANGED <<mem, last, maxCaseNumEver, maxPressureNumEver, arg>>

CPromoteToFoundation ==
  /\ \E path \in DOMAIN layers, scope \in FoundationScope :
       LET ls == cachedLayers(layers, disk, path)
           r == hPromoteToFoundation(ls,
                  [title |-> <<"T">>, default_behavior |-> <<"D", "o">>,
                   context_tags |-> << <<"D", "B">> >>, scope |-> scope,
                   source_pressures |-> <<>>,
                   origin_project |-> NoProject])
       IN /\ ls[promoteTarget(ls, scope)].mem.nextFoundationId <= CMaxFoundations
          /\ layers' = [layers EXCEPT ![path] = instancesOf(r.layers)]
          /\ disk' = writtenFiles(disk, r.layers)
          /\ result' = [op |-> "promoteToFoundation", err |-> r.err]
  /\ UNCHANGED <<mem, last, maxCaseNumEver, maxPressureNumEver, arg>>

NextCache ==
  \/ CGetStorage
  \/ CPromoteToFoundation

SpecCache == InitCache /\ [][NextCache]_vars

\* ---------------------------------------------------------------------------
\* closeCase over files that may be unreadable, and SpecClose: cases are
\* created and closed while pressures.yaml files are damaged from outside the
\* store. In SpecClose arg is the set of case ids whose pressures.yaml fails
\* PressureEventsFileSchema.
\* ---------------------------------------------------------------------------

\* closeCase when readYamlValidated raises for the pressures.yaml of the cases
\* in unreadable: getPressureEvents is reached only for regret "0", after
\* updateCase has written and the pointer has been cleared
closeCaseReading(d, m, caseId, regret, unreadable) ==
  LET normalizedRegret == StringOfRegret(regret)
      upd == updateCase(d, caseId, [status |-> "COMPLETED", regret |-> normalizedRegret])
      act == clearActiveIfClosed(upd.disk, m, caseId)
  IN IF upd.err # "none"
       THEN [disk |-> d, mem |-> m, err |-> upd.err]
     ELSE IF normalizedRegret = "0" /\ caseId \in unreadable
       THEN [disk |-> act.disk, mem |-> act.mem, err |-> "InvalidPressures"]
     ELSE [disk |-> closeCase(d, m, caseId, regret).disk,
           mem  |-> closeCase(d, m, caseId, regret).mem,
           err  |-> "none"]

\* createCase is offered while the case counter is at most XMaxCases
XMaxCases == 2

\* regret values given to closeCase: 0, 1, and "5", which is outside the enum
XRegretInputs == {[num |-> 0], [num |-> 1], [str |-> "5"]}

InitClose ==
  /\ disk = EmptyDisk
  /\ mem = initialize(EmptyDisk, NewInstance).mem
  /\ last = [op |-> "initialize", caseId |-> NoCase]
  /\ maxCaseNumEver = 0
  /\ maxPressureNumEver = 0
  /\ layers = NoLayers
  /\ arg = {}
  /\ result = NoCall

XCreateCase ==
  /\ mem.nextCaseId <= XMaxCases
  /\ LET r == createCase(disk, mem, <<"T">>)
     IN /\ disk' = r.disk
        /\ mem' = r.mem
  /\ result' = [op |-> "createCase", err |-> "none"]
  /\ UNCHANGED <<last, maxCaseNumEver, maxPressureNumEver, layers, arg>>

XSetActiveCase ==
  /\ \E caseId \in DOMAIN disk.cases :
       LET r == setActiveCase(disk, mem, caseId)
       IN /\ disk' = r.disk
          /\ mem' = r.mem
  /\ result' = [op |-> "setActiveCase", err |-> "none"]
  /\ UNCHANGED <<last, maxCaseNumEver, maxPressureNumEver, layers, arg>>

\* the pressures.yaml of an existing case is overwritten with content that
\* fails the schema
XDamagePressures ==
  /\ \E caseId \in (DOMAIN disk.cases) \ arg : arg' = arg \cup {caseId}
  /\ result' = [op |-> "none", err |-> "none"]
  /\ UNCHANGED <<svars, layers>>

XCloseCase ==
  /\ \E caseId \in (DOMAIN disk.cases) \cup {UnknownCase}, regret \in XRegretInputs :
       LET r == closeCaseReading(disk, mem, caseId, regret, arg)
       IN /\ disk' = r.disk
          /\ mem' = r.mem
          /\ result' = [op |-> "closeCase", err |-> r.err]
  /\ arg' = arg \cap DOMAIN disk'.cases
  /\ UNCHANGED <<last, maxCaseNumEver, maxPressureNumEver, layers>>

NextClose ==
  \/ XCreateCase
  \/ XSetActiveCase
  \/ XDamagePressures
  \/ XCloseCase

SpecClose == InitClose /\ [][NextClose]_vars

\* ---------------------------------------------------------------------------
\* createCase with input.signals given, and SpecLifecycle: the five operations
\* on units of one store, createCase called with and without outcome signals
\* ---------------------------------------------------------------------------

\* createCase({title, signals}): signals is stored as given; outcome is the
\* regret of input.signals.outcome, NoOutcome when signals carries no outcome.
\* CaseSchema.parse raises after the counter was incremented.
createCaseWithSignals(d, m, title, outcome) ==
  LET id  == CaseIdFor(m.nextCaseId, title)
      doc == [id |-> id, title |-> title, status |-> "ACTIVE",
              regret |-> outcome, pressure_events |-> <<>>]
      d1  == [d EXCEPT !.cases = Put(d.cases, id, doc),
                       !.pressures = Put(d.pressures, id, <<>>)]
      m1  == [m EXCEPT !.nextCaseId = m.nextCaseId + 1]
      act == setActiveCase(d1, m1, id)
  IN IF ~CaseSchemaOk(doc)
       THEN [disk |-> d, mem |-> m1, err |-> "Validation", case |-> NoCase]
       ELSE [disk |-> act.disk, mem |-> act.mem, err |-> "none", case |-> doc]

\* createCase is offered while the case counter is at most YMaxCases
YMaxCases == 2

\* logPressure is offered while the pressure counter is at most YMaxPressures
YMaxPressures == 1

\* promoteToFoundation is offered while the foundation counter is at most YMaxFoundations
YMaxFoundations == 1

\* input.signals.outcome.regret given to createCase: no outcome, "2", and "7",
\* which is outside the enum
YOutcomes == {NoOutcome, "2", "7"}

\* regret values given to closeCase
YRegretInputs == {[num |-> 0], [num |-> 1], [str |-> "7"]}

InitLifecycle ==
  /\ disk = EmptyDisk
  /\ mem = initialize(EmptyDisk, NewInstance).mem
  /\ last = [op |-> "initialize", caseId |-> NoCase]
  /\ maxCaseNumEver = 0
  /\ maxPressureNumEver = 0
  /\ layers = NoLayers
  /\ arg = NoCall
  /\ result = NoCall

YCreateCase ==
  /\ mem.nextCaseId <= YMaxCases
  /\ \E outcome \in YOutcomes :
       LET r == createCaseWithSignals(disk, mem, <<"T">>, outcome)
       IN /\ disk' = r.disk
          /\ mem' = r.mem
          /\ result' = [op |-> "createCase", err |-> r.err]
  /\ UNCHANGED <<last, maxCaseNumEver, maxPressureNumEver, layers, arg>>

YLogPressure ==
  /\ mem.nextPressureId <= YMaxPressures
  /\ \E case_id \in (DOMAIN disk.cases) \cup {NoCase} :
       LET r == logPressure(disk, mem, case_id, << <<"A">> >>)
       IN /\ disk' = r.disk
          /\ mem' = r.mem
          /\ result' = [op |-> "logPressure", err |-> r.err]
  /\ UNCHANGED <<last, maxCaseNumEver, maxPressureNumEver, layers, arg>>

YPromoteToFoundation ==
  /\ mem.nextFoundationId <= YMaxFoundations
  /\ LET r == promoteToFoundation(disk, mem,
                [title |-> <<"T">>, default_behavior |-> <<"D", "o">>,
                 context_tags |-> << <<"A">> >>, scope |-> NoScope,
                 source_pressures |-> <<PressureIdFor(1)>>,
                 origin_project |-> NoProject])
     IN /\ disk' = r.disk
        /\ mem' = r.mem
        /\ result' = [op |-> "promoteToFoundation", err |-> r.err]
  /\ UNCHANGED <<last, maxCaseNumEver, maxPressureNumEver, layers, arg>>

YCloseCase ==
  /\ \E caseId \in (DOMAIN disk.cases) \cup {UnknownCase}, regret \in YRegretInputs :
       LET r == closeCase(disk, mem, caseId, regret)
       IN /\ disk' = r.disk
          /\ mem' = r.mem
          /\ result' = [op |-> "closeCase", err |-> r.err]
  /\ UNCHANGED <<last, maxCaseNumEver, maxPressureNumEver, layers, arg>>

YSetActiveCase ==
  /\ \E caseId \in (DOMAIN disk.cases) \cup {NoCase} :
       LET r == setActiveCase(disk, mem, caseId)
       IN /\ disk' = r.disk
          /\ mem' = r.mem
          /\ result' = [op |-> "setActiveCase", err |-> "none"]
  /\ UNCHANGED <<last, maxCaseNumEver, maxPressureNumEver, layers, arg>>

NextLifecycle ==
  \/ YCreateCase
  \/ YLogPressure
  \/ YPromoteToFoundation
  \/ YCloseCase
  \/ YSetActiveCase

SpecLifecycle == InitLifecycle /\ [][NextLifecycle]_vars

\* ---------------------------------------------------------------------------
\* SpecAsync: calls of createCase, logPressure and promoteToFoundation on one
\* store instance, each cut at its awaits, run interleaved. In SpecAsync arg
\* is the list of the calls in flight, each with its position (pc) and what it
\* has read so far, and result.obtained counts, for every identifier, the
\* calls that obtained it.
\* ---------------------------------------------------------------------------

\* const id = `${String(this.nextCaseId).padStart(4, "0")}-${slug}`; this.nextCaseId++
allocateCaseId(m, title) ==
  [id |-> CaseIdFor(m.nextCaseId, title),
   mem |-> [m EXCEPT !.nextCaseId = m.nextCaseId + 1]]

\* the pressure id taken from the number of events found on disk
allocatePressureIdFromDisk(d, m) ==
  [id |-> PressureIdFor(Len(allPressures(d)) + 1),
   mem |-> [m EXCEPT !.nextPressureId = m.nextPressureId + 1]]

\* const id = `PE-${String(this.nextPressureId).padStart(4, "0")}`; this.nextPressureId++
allocatePressureId(d, m) ==
  [id |-> PressureIdFor(m.nextPressureId),
   mem |-> [m EXCEPT !.nextPressureId = m.nextPressureId + 1]]

\* const id = `${prefix}-${String(this.nextFoundationId).padStart(4, "0")}`; this.nextFoundationId++
allocateFoundationId(m, scope) ==
  [id |-> FoundationIdFor(m.nextFoundationId, scope),
   mem |-> [m EXCEPT !.nextFoundationId = m.nextFoundationId + 1]]

\* at most AMaxInFlight calls are in flight at a time
AMaxInFlight == 2

\* createCase is started while the case counter is at most AMaxCases
AMaxCases == 2

\* logPressure allocates while the pressure counter is at most AMaxPressures
AMaxPressures == 2

\* promoteToFoundation is started while the foundation counter is at most AMaxFoundations
AMaxFoundations == 2

\* a call that has read nothing yet
NewCall ==
  [op |-> "none", pc |-> "none", id |-> NoCase, caseId |-> NoCase,
   caseData |-> NoCase, events |-> <<>>, current |-> NoCase, foundations |-> <<>>]

\* the list of calls without its i-th element
withoutCall(calls, i) == SubSeq(calls, 1, i - 1) \o SubSeq(calls, i + 1, Len(calls))

\* one more call obtained id
counted(obtained, id) ==
  IF id \in DOMAIN obtained
    THEN [obtained EXCEPT ![id] = obtained[id] + 1]
    ELSE Put(obtained, id, 1)

InitAsync ==
  /\ disk = EmptyDisk
  /\ mem = initialize(EmptyDisk, NewInstance).mem
  /\ last = [op |-> "initialize", caseId |-> NoCase]
  /\ maxCaseNumEver = 0
  /\ maxPressureNumEver = 0
  /\ layers = NoLayers
  /\ arg = <<>>
  /\ result = [op |-> "none", obtained |-> <<>>]

\* createCase up to its first await: the id is computed and the counter incremented
ABeginCreateCase ==
  /\ Len(arg) < AMaxInFlight
  /\ mem.nextCaseId <= AMaxCases
  /\ LET a == allocateCaseId(mem, <<"T">>)
     IN /\ mem' = a.mem
        /\ arg' = Append(arg, [NewCall EXCEPT !.op = "createCase", !.pc = "writeCase",
                                              !.id = a.id, !.caseId = a.id])
        /\ result' = [op |-> "createCase", obtained |-> counted(result.obtained, a.id)]
  /\ UNCHANGED <<disk, last, maxCaseNumEver, maxPressureNumEver, layers>>

\* createCase resumes: case.yaml is written, then pressures.yaml, then setActiveCase
AStepCreateCase ==
  /\ \E i \in DOMAIN arg :
       /\ arg[i].op = "createCase"
       /\ \/ /\ arg[i].pc = "writeCase"
             /\ disk' = [disk EXCEPT !.cases =
                           Put(disk.cases, arg[i].id,
                               [id |-> arg[i].id, title |-> <<"T">>, status |-> "ACTIVE",
                                regret |-> NoOutcome, pressure_events |-> <<>>])]
             /\ mem' = mem
             /\ arg' = [arg EXCEPT ![i].pc = "writePressures"]
          \/ /\ arg[i].pc = "writePressures"
             /\ disk' = [disk EXCEPT !.pressures = Put(disk.pressures, arg[i].id, <<>>)]
             /\ mem' = mem
             /\ arg' = [arg EXCEPT ![i].pc = "setActive"]
          \/ /\ arg[i].pc = "setActive"
             /\ disk' = setActiveCase(disk, mem, arg[i].id).disk
             /\ mem' = setActiveCase(disk, mem, arg[i].id).mem
             /\ arg' = withoutCall(arg, i)
  /\ result' = [result EXCEPT !.op = "createCase"]
  /\ UNCHANGED <<last, maxCaseNumEver, maxPressureNumEver, layers>>

\* logPressure up to its first await: the case id is resolved and getCase starts reading
ABeginLogPressure ==
  /\ Len(arg) < AMaxInFlight
  /\ \E case_id \in (DOMAIN disk.cases) \cup {NoCase, UnknownCase} :
       LET caseId == IF case_id # NoCase THEN case_id ELSE mem.activeCase
       IN /\ caseId # NoCase
          /\ arg' = Append(arg, [NewCall EXCEPT !.op = "logPressure", !.pc = "allocate",
                                                !.caseId = caseId,
                                                !.caseData = IF caseExists(disk, caseId)
                                                               THEN disk.cases[caseId]
                                                               ELSE NoCase])
  /\ result' = [result EXCEPT !.op = "logPressure"]
  /\ UNCHANGED <<svars, layers>>

\* logPressure resumes: after getCase the id is allocated and getPressureEvents
\* starts reading; after that read pressures.yaml is written and updateCase
\* starts reading; after that read case.yaml is written
AStepLogPressure ==
  /\ \E i \in DOMAIN arg :
       /\ arg[i].op = "logPressure"
       /\ \/ /\ arg[i].pc = "allocate"
             /\ arg[i].caseData = NoCase
             /\ arg' = withoutCall(arg, i)
             /\ result' = [result EXCEPT !.op = "logPressure"]
             /\ UNCHANGED <<disk, mem>>
          \/ /\ arg[i].pc = "allocate"
             /\ arg[i].caseData # NoCase
             /\ mem.nextPressureId <= AMaxPressures
             /\ LET a == allocatePressureId(disk, mem)
                IN /\ mem' = a.mem
                   /\ arg' = [arg EXCEPT ![i].pc = "writeEvents", ![i].id = a.id,
                                         ![i].events = getPressureEvents(disk, arg[i].caseId)]
                   /\ result' = [op |-> "logPressure",
                                 obtained |-> counted(result.obtained, a.id)]
             /\ disk' = disk
          \/ /\ arg[i].pc = "writeEvents"
             /\ disk' = [disk EXCEPT !.pressures =
                           Put(disk.pressures, arg[i].caseId,
                               Append(arg[i].events,
                                      [id |-> arg[i].id, case_id |-> arg[i].caseId,
                                       context_tags |-> << <<"A">> >>,
                                       promoted_to_foundation |-> NoFoundation]))]
             /\ arg' = [arg EXCEPT ![i].pc = "updateCase",
                                   ![i].current = disk.cases[arg[i].caseId]]
             /\ result' = [result EXCEPT !.op = "logPressure"]
             /\ mem' = mem
          \/ /\ arg[i].pc = "updateCase"
             /\ disk' = [disk EXCEPT !.cases =
                           Put(disk.cases, arg[i].caseId,
                               Merge(arg[i].current,
                                     [pressure_events |->
                                        Append(arg[i].caseData.pressure_events, arg[i].id)]))]
             /\ arg' = withoutCall(arg, i)
             /\ result' = [result EXCEPT !.op = "logPressure"]
             /\ mem' = mem
  /\ UNCHANGED <<last, maxCaseNumEver, maxPressureNumEver, layers>>

\* promoteToFoundation with no source pressures up to its first await: the id
\* is computed, the counter incremented and foundations.yaml starts being read
ABeginPromoteToFoundation ==
  /\ Len(arg) < AMaxInFlight
  /\ mem.nextFoundationId <= AMaxFoundations
  /\ LET a == allocateFoundationId(mem, "PROJECT")
     IN /\ mem' = a.mem
        /\ arg' = Append(arg, [NewCall EXCEPT !.op = "promoteToFoundation",
                                              !.pc = "writeFoundations", !.id = a.id,
                                              !.foundations = disk.foundations])
        /\ result' = [op |-> "promoteToFoundation",
                      obtained |-> counted(result.obtained, a.id)]
  /\ UNCHANGED <<disk, last, maxCaseNumEver, maxPressureNumEver, layers>>

\* promoteToFoundation resumes: the list it read is written with the new foundation
AStepPromoteToFoundation ==
  /\ \E i \in DOMAIN arg :
       /\ arg[i].op = "promoteToFoundation"
       /\ arg[i].pc = "writeFoundations"
       /\ disk' = [disk EXCEPT !.foundations =
                     Append(arg[i].foundations,
                            [promoteToFoundation(disk, mem,
                               [title |-> <<"T">>, default_behavior |-> <<"D", "o">>,
                                context_tags |-> << <<"A">> >>, scope |-> "PROJECT",
                                source_pressures |-> <<>>,
                                origin_project |-> NoProject]).foundation
                               EXCEPT !.id = arg[i].id])]
       /\ arg' = withoutCall(arg, i)
  /\ result' = [result EXCEPT !.op = "promoteToFoundation"]
  /\ UNCHANGED <<mem, last, maxCaseNumEver, maxPressureNumEver, layers>>

NextAsync ==
  \/ ABeginCreateCase
  \/ AStepCreateCase
  \/ ABeginLogPressure
  \/ AStepLogPressure
  \/ ABeginPromoteToFoundation
  \/ AStepPromoteToFoundation

SpecAsync == InitAsync /\ [][NextAsync]_vars

\* ---------------------------------------------------------------------------
\* SpecFrame: a first session works in a directory under the home directory
\* that has no .decision-os of its own, so its nearest layer is
\* ~/.decision-os (disk, mem); a later session opens the workspace
\* /home/u/mono/app, whose store has the project layer and ~/.decision-os
\* (layers), and promotes and elevates foundations. arg.phase tells which
\* session is running.
\* ---------------------------------------------------------------------------

\* the first session creates cases while its counter is at most FMaxHomeCases
FMaxHomeCases == 1

\* the first session logs pressures while its counter is at most FMaxHomePressures
FMaxHomePressures == 1

\* the second session creates cases while its counter is at most FMaxCases
FMaxCases == 1

\* the second session logs pressures while its counter is at most FMaxPressures
FMaxPressures == 1

\* foundations are created in a layer while its counter is at most FMaxFoundations
FMaxFoundations == 1

\* source_pressures lists given to promoteToFoundation: none, ["PE-0001"]
FSourceLists == {<<>>, <<PressureIdFor(1)>>}

\* createHierarchicalStorage("/home/u/mono/app") and initialize, over an empty
\* project layer and the ~/.decision-os folder d
openWorkspace(d) ==
  LET ls == newLayers({AppDir, HomeDir}, AppDir)
      u  == CHOOSE k \in DOMAIN ls : ls[k].basePath = GlobalPath
  IN [ls EXCEPT ![u].disk = initialize(d, NewInstance).disk,
                ![u].mem  = initialize(d, NewInstance).mem]

InitFrame ==
  /\ disk = EmptyDisk
  /\ mem = initialize(EmptyDisk, NewInstance).mem
  /\ last = [op |-> "initialize", caseId |-> NoCase]
  /\ maxCaseNumEver = 0
  /\ maxPressureNumEver = 0
  /\ layers = NoLayers
  /\ arg = [phase |-> "home"]
  /\ result = NoCall

FHomeCreateCase ==
  /\ arg.phase = "home"
  /\ mem.nextCaseId <= FMaxHomeCases
  /\ LET r == createCase(disk, mem, <<"T">>)
     IN /\ disk' = r.disk
        /\ mem' = r.mem
  /\ result' = [op |-> "createCase", err |-> "none"]
  /\ UNCHANGED <<last, maxCaseNumEver, maxPressureNumEver, layers, arg>>

FHomeLogPressure ==
  /\ arg.phase = "home"
  /\ mem.nextPressureId <= FMaxHomePressures
  /\ LET r == logPressure(disk, mem, NoCase, << <<"A">> >>)
     IN /\ disk' = r.disk
        /\ mem' = r.mem
        /\ result' = [op |-> "logPressure", err |-> r.err]
  /\ UNCHANGED <<last, maxCaseNumEver, maxPressureNumEver, layers, arg>>

\* the first session ends and the second one opens the workspace
FOpenWorkspace ==
  /\ arg.phase = "home"
  /\ layers' = openWorkspace(disk)
  /\ arg' = [phase |-> "workspace"]
  /\ result' = [op |-> "initialize", err |-> "none"]
  /\ UNCHANGED svars

FCreateCase ==
  /\ arg.phase = "workspace"
  /\ layers[projectLayer].mem.nextCaseId <= FMaxCases
  /\ LET r == createCase(layers[projectLayer].disk, layers[projectLayer].mem, <<"T">>)
     IN /\ layers' = withLayer(layers, projectLayer, r.disk, r.mem)
        /\ result' = [op |-> "createCase", err |-> r.err]
  /\ UNCHANGED <<svars, arg>>

FLogPressure ==
  /\ arg.phase = "workspace"
  /\ layers[projectLayer].mem.nextPressureId <= FMaxPressures
  /\ LET r == logPressure(layers[projectLayer].disk, layers[projectLayer].mem,
                          NoCase, << <<"A">> >>)
     IN /\ layers' = withLayer(layers, projectLayer, r.disk, r.mem)
        /\ result' = [op |-> "logPressure", err |-> r.err]
  /\ UNCHANGED <<svars, arg>>

FPromoteToFoundation ==
  /\ arg.phase = "workspace"
  /\ \E scope \in FoundationScope, source_pressures \in FSourceLists :
       /\ layers[promoteTarget(layers, scope)].mem.nextFoundationId <= FMaxFoundations
       /\ LET r == hPromoteToFoundation(layers,
                      [title |-> <<"T">>, default_behavior |-> <<"D", "o">>,
                       context_tags |-> << <<"A">> >>, scope |-> scope,
                       source_pressures |-> source_pressures,
                       origin_project |-> NoProject])
          IN /\ layers' = r.layers
             /\ result' = [op |-> "promoteToFoundation", err |-> r.err]
  /\ UNCHANGED <<svars, arg>>

FElevateFoundation ==
  /\ arg.phase = "workspace"
  /\ layers[globalLayer(layers)].mem.nextFoundationId <= FMaxFoundations
  /\ \E foundation_id \in
          {layers[projectLayer].disk.foundations[i].id :
             i \in DOMAIN layers[projectLayer].disk.foundations} :
       LET r == elevateFoundation(layers, foundation_id, NoReason)
       IN /\ layers' = r.layers
          /\ result' = [op |-> "elevateFoundation", err |-> r.err]
  /\ UNCHANGED <<svars, arg>>

NextFrame ==
  \/ FHomeCreateCase
  \/ FHomeLogPressure
  \/ FOpenWorkspace
  \/ FCreateCase
  \/ FLogPressure
  \/ FPromoteToFoundation
  \/ FElevateFoundation

SpecFrame == InitFrame /\ [][NextFrame]_vars

\* ---------------------------------------------------------------------------
\* SpecMerge: the foundation collections of the layers are filled through the
\* hierarchical promoteToFoundation with varied titles, tags and behavior
\* texts; the merged listing and detectConflicts are called on them
\* ---------------------------------------------------------------------------

\* foundations are promoted into the nearest layer while its counter is at most MMaxProject
MMaxProject == 1

\* foundations are promoted into the last layer while its counter is at most MMaxGlobal
MMaxGlobal == 2

\* the workspace alone, with ~/.decision-os, with a layer in the parent directory
MergeMarkerSets == {{AppDir}, {AppDir, HomeDir}, {AppDir, MonoDir}}

\* titles "T", "t", "U"
MergeTitles == {<<"T">>, <<"t">>, <<"U">>}

\* behavior texts "ALWAYS", "never", "Prefer", "avoid", "ok"
MergeBehaviors ==
  {<<"A", "L", "W", "A", "Y", "S">>,
   <<"n", "e", "v", "e", "r">>,
   <<"P", "r", "e", "f", "e", "r">>,
   <<"a", "v", "o", "i", "d">>,
   <<"o", "k">>}

\* context_tags ["A"], ["B"]
MergeTags == {<< <<"A">> >>, << <<"B">> >>}

\* filters given to the merged listing: none, a tag, a minimum confidence
MergeFilters ==
  {NoFilters,
   [context_tags |-> << <<"A">> >>],
   [context_tags |-> << <<"B">> >>, min_confidence |-> 1]}

InitMerge ==
  /\ InitSingleUnused
  /\ \E markers \in MergeMarkerSets : layers = newLayers(markers, AppDir)
  /\ arg = NoCall
  /\ result = NoCall

\* the bound on the foundation counter of the layer at index i
MergeBound(ls, i) == IF i = projectLayer THEN MMaxProject ELSE MMaxGlobal

MPromoteToFoundation ==
  /\ \E title \in MergeTitles, default_behavior \in MergeBehaviors,
        context_tags \in MergeTags, scope \in FoundationScope :
       /\ layers[promoteTarget(layers, scope)].mem.nextFoundationId
            <= MergeBound(layers, promoteTarget(layers, scope))
       /\ LET r == hPromoteToFoundation(layers,
                      [title |-> title, default_behavior |-> default_behavior,
                       context_tags |-> context_tags, scope |-> scope,
                       source_pressures |-> <<>>,
                       origin_project |-> NoProject])
          IN /\ layers' = r.layers
             /\ result' = [op |-> "promoteToFoundation"]
  /\ UNCHANGED <<svars, arg>>

MGetFoundations ==
  /\ \E filters \in MergeFilters :
       result' = [op |-> "getFoundations", filters |-> filters,
                  value |-> mergedFoundations(layers, filters)]
  /\ UNCHANGED <<svars, layers, arg>>

MDetectConflicts ==
  /\ result' = [op |-> "detectConflicts", value |-> detectConflicts(layers)]
  /\ UNCHANGED <<svars, layers, arg>>

NextMerge ==
  \/ MPromoteToFoundation
  \/ MGetFoundations
  \/ MDetectConflicts

SpecMerge == InitMerge /\ [][NextMerge]_vars

\* ---------------------------------------------------------------------------
\* Vocabulary of the properties
\* ---------------------------------------------------------------------------

\* the ids of the divergence records kept in the collection of a unit
OwnedIds(d, caseId) ==
  {getPressureEvents(d, caseId)[i].id : i \in DOMAIN getPressureEvents(d, caseId)}

\* the unit holds a divergence record whose promoted-to field is unset
HasUnpromoted(d, caseId) ==
  \E i \in DOMAIN getPressureEvents(d, caseId) :
    getPressureEvents(d, caseId)[i].promoted_to_foundation = NoFoundation

\* every divergence record id stored anywhere in the layer
AllPressureIds(d) == UNION {OwnedIds(d, c) : c \in DOMAIN d.pressures}

\* ---------------------------------------------------------------------------
\* C1  closeCase with normalized regret "0" on a unit all of whose divergence
\*     records are promoted (a unit that owns none included) returns
\*     forgotten = true, and afterwards neither the unit nor any record it owned
\*     exists in the layer: getCase is null, getPressureEvents is empty and
\*     listCases omits it.
\* ---------------------------------------------------------------------------
C1_ForgetsWhenAllPromoted ==
  \A caseId \in DOMAIN disk.cases : \A regret \in RegretInputs :
    LET r == closeCase(disk, mem, caseId, regret)
    IN (StringOfRegret(regret) = "0" /\ ~HasUnpromoted(disk, caseId))
         => /\ r.err = "none"
            /\ r.forgotten = TRUE
            /\ ~caseExists(r.disk, caseId)
            /\ getPressureEvents(r.disk, caseId) = <<>>
            /\ \A i \in DOMAIN listCases(r.disk) : listCases(r.disk)[i].id # caseId
            /\ AllPressureIds(r.disk) \cap OwnedIds(disk, caseId) = {}

\* the last call closed a unit that is gone, divergence records were logged, and
\* none is left: a unit holding promoted records has been forgotten
C1_Witness ==
  /\ last.op = "closeCase"
  /\ ~caseExists(disk, last.caseId)
  /\ maxPressureNumEver > 0
  /\ AllPressureIds(disk) = {}

\* ---------------------------------------------------------------------------
\* C2  closeCase does not forget unless both conditions hold: with normalized
\*     regret "1", "2" or "3", or with at least one divergence record of the unit
\*     unpromoted, it returns forgotten = false and the unit persists with status
\*     COMPLETED and all its divergence records.
\* ---------------------------------------------------------------------------
C2_KeepsOtherwise ==
  \A caseId \in DOMAIN disk.cases : \A regret \in RegretInputs :
    LET r == closeCase(disk, mem, caseId, regret)
    IN (/\ StringOfRegret(regret) \in Regret
        /\ (StringOfRegret(regret) \in {"1", "2", "3"} \/ HasUnpromoted(disk, caseId)))
         => /\ r.err = "none"
            /\ r.forgotten = FALSE
            /\ caseExists(r.disk, caseId)
            /\ r.disk.cases[caseId].status = "COMPLETED"
            /\ r.disk.cases[caseId].regret = StringOfRegret(regret)
            /\ r.disk.cases[caseId].pressure_events = disk.cases[caseId].pressure_events
            /\ getPressureEvents(r.disk, caseId) = getPressureEvents(disk, caseId)

\* the last call closed, with regret "0", a unit that is kept because it holds an
\* unpromoted record, and another unit closed with regret 1+ is kept although it
\* holds no unpromoted record
C2_Witness ==
  /\ last.op = "closeCase"
  /\ caseExists(disk, last.caseId)
  /\ disk.cases[last.caseId].status = "COMPLETED"
  /\ disk.cases[last.caseId].regret = "0"
  /\ HasUnpromoted(disk, last.caseId)
  /\ \E other \in DOMAIN disk.cases :
       /\ disk.cases[other].status = "COMPLETED"
       /\ disk.cases[other].regret \in {"1", "2", "3"}
       /\ ~HasUnpromoted(disk, other)

\* ---------------------------------------------------------------------------
\* C3  In every state reached after a closeCase has completed, the layer holds
\*     no unit with status COMPLETED, regret "0" and no divergence record whose
\*     promoted-to field is unset.
\* ---------------------------------------------------------------------------
C3_NoCompletedUnitWithNothingLeft ==
  \A caseId \in DOMAIN disk.cases :
    ~(/\ disk.cases[caseId].status = "COMPLETED"
      /\ disk.cases[caseId].regret = "0"
      /\ ~HasUnpromoted(disk, caseId))

\* ---------------------------------------------------------------------------
\* C4  Every newly created unit gets a sequence number strictly greater than
\*     that of every unit ever created before in the layer, deleted or not,
\*     across createCase, closeCase (auto-forget included) and re-initialization
\*     of a store on the same directory.
\* ---------------------------------------------------------------------------
C4_CaseNumbersNeverReused ==
  [][\A id \in (DOMAIN disk'.cases) \ (DOMAIN disk.cases) :
       parseInt(LeadingDigits(id)) > maxCaseNumEver]_vars

\* ^\d{4}-[a-z0-9-]+$
MatchesCaseIdPattern(id) ==
  /\ Len(id) >= 6
  /\ \A i \in 1..4 : IsDigit(id[i])
  /\ id[5] = "-"
  /\ \A i \in 6..Len(id) : IsAlnum(id[i]) \/ id[i] = "-"

\* ---------------------------------------------------------------------------
\* C5  For every non-empty title and every counter value, the identifier
\*     createCase assigns is exactly four digits, a hyphen and a non-empty slug
\*     of lower-case letters, digits and hyphens.
\* ---------------------------------------------------------------------------
C5_CaseIdMatchesPattern ==
  \A id \in DOMAIN disk.cases : MatchesCaseIdPattern(id)

\* ---------------------------------------------------------------------------
\* C6  Every newly logged divergence record gets a number strictly greater than
\*     that of every record logged earlier in the layer under any unit, records
\*     deleted with their unit included, and across re-initialization.
\* ---------------------------------------------------------------------------
C6_PressureNumbersNeverReused ==
  [][\A id \in AllPressureIds(disk') \ AllPressureIds(disk) :
       parseInt(CaptureDigitsAfter(id, <<"P", "E", "-">>)) > maxPressureNumEver]_vars

\* ---------------------------------------------------------------------------
\* C7  createCase produces a unit with status ACTIVE and an empty
\*     divergence-record list, stored with an empty collection, and on return
\*     the active-unit pointer (and its marker file) holds the new unit's id,
\*     whatever unit was active before.
\* ---------------------------------------------------------------------------
C7_CreateCaseActivates ==
  \A title \in Titles :
    LET r == createCase(disk, mem, title)
    IN /\ r.case.status = "ACTIVE"
       /\ r.case.pressure_events = <<>>
       /\ caseExists(r.disk, r.case.id)
       /\ r.disk.cases[r.case.id] = r.case
       /\ getPressureEvents(r.disk, r.case.id) = <<>>
       /\ r.mem.activeCase = r.case.id
       /\ r.disk.marker = r.case.id

\* the last call created the unit that is now active, while an earlier unit that
\* was never closed is still there
C7_Witness ==
  /\ last.op = "createCase"
  /\ mem.activeCase = last.caseId
  /\ disk.marker = last.caseId
  /\ \E other \in (DOMAIN disk.cases) \ {last.caseId} :
       disk.cases[other].status = "ACTIVE"

\* ---------------------------------------------------------------------------
\* C8  A closeCase(id) that completes clears the active-unit pointer and removes
\*     the marker file exactly when the pointer equalled id before the call;
\*     when another unit was active, pointer and marker are unchanged, whether
\*     or not the closed unit is forgotten. A call that raises changes neither.
\* ---------------------------------------------------------------------------
C8_ClosePointerFrame ==
  \A caseId \in (DOMAIN disk.cases) \cup {UnknownCase} : \A regret \in RegretInputs :
    LET r == closeCase(disk, mem, caseId, regret)
    IN IF r.err = "none" /\ mem.activeCase = caseId
         THEN r.mem.activeCase = NoCase /\ r.disk.marker = NoCase
         ELSE r.mem.activeCase = mem.activeCase /\ r.disk.marker = disk.marker

\* the last call closed and forgot a unit while another unit was, and still is,
\* the active one
C8_Witness ==
  /\ last.op = "closeCase"
  /\ ~caseExists(disk, last.caseId)
  /\ mem.activeCase # NoCase
  /\ disk.marker = mem.activeCase

\* ---------------------------------------------------------------------------
\* C9  Once a unit is COMPLETED, a further closeCase on it does not close it a
\*     second time: the unit stays, with its outcome signals as they were, and
\*     the auto-forget rule is not evaluated again.
\* ---------------------------------------------------------------------------
C9_ClosedOnce ==
  [][\A caseId \in DOMAIN disk.cases :
       (/\ disk.cases[caseId].status = "COMPLETED"
        /\ last'.op = "closeCase"
        /\ last'.caseId = caseId)
         => /\ caseExists(disk', caseId)
            /\ disk'.cases[caseId].regret = disk.cases[caseId].regret]_vars

\* for every unit, the back-reference list is the ids of its collection, in order
BackReferencesMatch(d) ==
  \A caseId \in DOMAIN d.cases :
    d.cases[caseId].pressure_events =
      [i \in DOMAIN getPressureEvents(d, caseId) |-> getPressureEvents(d, caseId)[i].id]

\* ---------------------------------------------------------------------------
\* C10 logPressure attaches the new record to the unit named by case_id when one
\*     is given, otherwise to the active unit, and appends the new id to both
\*     the unit's collection and its back-reference list; for every existing
\*     unit the back-reference list equals, in order, the ids of the records in
\*     its collection.
\* ---------------------------------------------------------------------------
C10_LogPressureAttaches ==
  /\ BackReferencesMatch(disk)
  /\ \A case_id \in (DOMAIN disk.cases) \cup {NoCase} : \A context_tags \in TagChoices :
       LET r == logPressure(disk, mem, case_id, context_tags)
           target == IF case_id # NoCase THEN case_id ELSE mem.activeCase
       IN caseExists(disk, target)
            => /\ r.err = "none"
               /\ r.event.case_id = target
               /\ getPressureEvents(r.disk, target) =
                    Append(getPressureEvents(disk, target), r.event)
               /\ r.disk.cases[target].pressure_events =
                    Append(disk.cases[target].pressure_events, r.event.id)
               /\ \A other \in (DOMAIN disk.cases) \ {target} :
                    /\ r.disk.cases[other] = disk.cases[other]
                    /\ getPressureEvents(r.disk, other) = getPressureEvents(disk, other)

\* the last call logged a second record, by case_id, under a unit that is not the
\* active one
C10_Witness ==
  /\ last.op = "logPressure"
  /\ mem.activeCase # NoCase
  /\ last.caseId # mem.activeCase
  /\ Len(getPressureEvents(disk, last.caseId)) >= 2
  /\ Len(disk.cases[last.caseId].pressure_events) >= 2

\* everything logPressure can be given as case_id
LogTargets == (DOMAIN disk.cases) \cup {NoCase, UnknownCase}

\* ---------------------------------------------------------------------------
\* C11 logPressure raises NoActiveUnit when no case_id is given and no unit is
\*     active, and NotFound when the resolved unit does not exist; either way
\*     the layer and the store instance are as before the call: no record
\*     stored, no unit modified, pointer unchanged and the next divergence-record
\*     number not consumed.
\* ---------------------------------------------------------------------------
C11_LogPressureRaisesCleanly ==
  \A case_id \in LogTargets : \A context_tags \in TagChoices :
    LET r == logPressure(disk, mem, case_id, context_tags)
        target == IF case_id # NoCase THEN case_id ELSE mem.activeCase
    IN /\ target = NoCase => r.err = "NoActiveCase"
       /\ (target # NoCase /\ ~caseExists(disk, target)) => r.err = "NotFound"
       /\ (target = NoCase \/ ~caseExists(disk, target))
            => /\ r.disk = disk
               /\ r.mem = mem

\* the last call was a logPressure without case_id that raised: units and
\* records exist in the layer but no unit is active, and the next number is
\* still the one after the highest assigned
C11_Witness ==
  /\ last.op = "logPressureRaised"
  /\ last.caseId = NoCase
  /\ mem.activeCase = NoCase
  /\ DOMAIN disk.cases # {}
  /\ AllPressureIds(disk) # {}
  /\ mem.nextPressureId = maxPressureNumEver + 1

\* everything the model gives promoteToFoundation
PromoteInputs ==
  [title : FoundationTitles, default_behavior : Behaviors, context_tags : FoundationTags,
   scope : ScopeInputs, source_pressures : SourceLists, origin_project : OriginChoices]

\* ---------------------------------------------------------------------------
\* C12 promoteToFoundation sets promoted_to_foundation of every listed source
\*     record that exists in the layer to the id of the foundation it creates,
\*     as getPressureEvents on the owning unit shows right after the call;
\*     records that are not listed, and every unit, are left unchanged.
\* ---------------------------------------------------------------------------
C12_PromoteMarksListed ==
  \A input \in PromoteInputs :
    LET r == promoteToFoundation(disk, mem, input)
    IN /\ r.disk.cases = disk.cases
       /\ DOMAIN r.disk.pressures = DOMAIN disk.pressures
       /\ \A caseId \in DOMAIN disk.pressures :
            /\ Len(getPressureEvents(r.disk, caseId)) = Len(getPressureEvents(disk, caseId))
            /\ \A i \in DOMAIN getPressureEvents(disk, caseId) :
                 LET before == getPressureEvents(disk, caseId)[i]
                     after  == getPressureEvents(r.disk, caseId)[i]
                 IN IF before.id \in Range(input.source_pressures)
                      THEN after = [before EXCEPT !.promoted_to_foundation = r.foundation.id]
                      ELSE after = before

\* the last call promoted: one record carries the id of the foundation created
\* and another record of the layer, not listed, is still unpromoted
C12_Witness ==
  /\ last.op = "promoteToFoundation"
  /\ Len(disk.foundations) = 1
  /\ \E c1 \in DOMAIN disk.pressures, c2 \in DOMAIN disk.pressures :
       \E i \in DOMAIN disk.pressures[c1], j \in DOMAIN disk.pressures[c2] :
         /\ disk.pressures[c1][i].promoted_to_foundation = disk.foundations[1].id
         /\ disk.pressures[c1][i].id \in Range(disk.foundations[1].source_pressures)
         /\ disk.pressures[c2][j].promoted_to_foundation = NoFoundation
         /\ disk.pressures[c2][j].id \notin Range(disk.foundations[1].source_pressures)

\* the number in a foundation id, whatever its prefix
FoundationNumber(id) == parseInt(CaptureDigitsAfter(id, <<"F", "-">>))

\* ---------------------------------------------------------------------------
\* C15 The foundation promoteToFoundation creates has confidence 1, an id with
\*     prefix GF- exactly when its scope is GLOBAL and F- otherwise (an absent
\*     scope is PROJECT), validated_in equal to the one origin project when one
\*     is given, and a number different from that of every other foundation of
\*     the layer, whatever the prefixes.
\* ---------------------------------------------------------------------------
C15_NewFoundationShape ==
  \A input \in PromoteInputs :
    LET r == promoteToFoundation(disk, mem, input)
        f == r.foundation
    IN /\ f.confidence = 1
       /\ f.scope = (IF input.scope = "GLOBAL" THEN "GLOBAL" ELSE "PROJECT")
       /\ IF f.scope = "GLOBAL"
            THEN SubSeq(f.id, 1, 3) = <<"G", "F", "-">>
            ELSE SubSeq(f.id, 1, 2) = <<"F", "-">>
       /\ input.origin_project # NoProject => f.validated_in = <<input.origin_project>>
       /\ r.disk.foundations = Append(disk.foundations, f)
       /\ \A k \in DOMAIN disk.foundations :
            FoundationNumber(disk.foundations[k].id) # FoundationNumber(f.id)

\* the store was re-initialized on a layer that holds a GLOBAL foundation with a
\* GF- id and its origin project, so that the next promoteToFoundation takes its
\* number from the counter seeded by the scan
C15_Witness ==
  /\ last.op = "initialize"
  /\ Len(disk.foundations) = 1
  /\ disk.foundations[1].scope = "GLOBAL"
  /\ SubSeq(disk.foundations[1].id, 1, 3) = <<"G", "F", "-">>
  /\ disk.foundations[1].validated_in = <<ProjectName>>
  /\ mem.nextFoundationId = 2

\* the ids of the foundations stored in a layer
FoundationIds(d) == {d.foundations[i].id : i \in DOMAIN d.foundations}

\* ---------------------------------------------------------------------------
\* C13 In every reachable state of the hierarchical store, whatever sequence of
\*     promoteToFoundation, elevateFoundation and unit operations led to it,
\*     every divergence record whose promoted_to_foundation is set names a
\*     foundation that exists in the layer the record is stored in.
\* ---------------------------------------------------------------------------
C13_PromotedToExistsInLayer ==
  \A k \in DOMAIN layers : \A caseId \in DOMAIN layers[k].disk.pressures :
    \A i \in DOMAIN layers[k].disk.pressures[caseId] :
      LET pe == layers[k].disk.pressures[caseId][i]
      IN pe.promoted_to_foundation # NoFoundation
           => pe.promoted_to_foundation \in FoundationIds(layers[k].disk)

\* ---------------------------------------------------------------------------
\* C14 Once promoted_to_foundation of a divergence record holds a foundation
\*     id, no later operation changes it, a second promoteToFoundation listing
\*     the record included, and no other field of a stored record ever changes.
\* ---------------------------------------------------------------------------
C14_PromotedToSetOnce ==
  [][\A k \in DOMAIN layers : \A caseId \in DOMAIN layers[k].disk.pressures :
       \A i \in DOMAIN layers[k].disk.pressures[caseId] :
         LET before == layers[k].disk.pressures[caseId][i]
         IN (caseId \in DOMAIN layers'[k].disk.pressures)
              => LET after == layers'[k].disk.pressures[caseId][i]
                 IN /\ [after EXCEPT !.promoted_to_foundation = NoFoundation]
                       = [before EXCEPT !.promoted_to_foundation = NoFoundation]
                    /\ before.promoted_to_foundation # NoFoundation
                         => after.promoted_to_foundation = before.promoted_to_foundation]_vars

\* ---------------------------------------------------------------------------
\* Relevance ranking: rankFoundationsByRelevance
\* ---------------------------------------------------------------------------
toUpperCaseChar(c) ==
  IF \E i \in DOMAIN LowerSeq : LowerSeq[i] = c
    THEN UpperSeq[CHOOSE i \in DOMAIN LowerSeq : LowerSeq[i] = c]
    ELSE c

toUpperCase(s) == [i \in DOMAIN s |-> toUpperCaseChar(s[i])]

\* activeCase is null
NoActiveCase == [null |-> TRUE]

\* activeCase.signals?.context?.affected_surface ?? []
surfaces(activeCase) ==
  IF "signals" \in DOMAIN activeCase
    THEN activeCase.signals.context.affected_surface
    ELSE <<>>

\* activeCase.context?.touched_areas ?? []
areas(activeCase) ==
  IF "context" \in DOMAIN activeCase
    THEN activeCase.context.touched_areas
    ELSE <<>>

\* the set of upper-cased tags of the active case
caseTags(activeCase) ==
  {toUpperCase(t) : t \in Range(surfaces(activeCase)) \cup Range(areas(activeCase))}

\* f.context_tags.filter((t) => caseTags.has(t.toUpperCase())).length
overlap(f, tags) ==
  Cardinality({i \in DOMAIN f.foundation.context_tags :
                 toUpperCase(f.foundation.context_tags[i]) \in tags})

\* foundations.map((f) => ({ foundation: f, overlap }))
scoredOf(foundations, tags) ==
  [i \in DOMAIN foundations |->
     [foundation |-> foundations[i], overlap |-> overlap(foundations[i], tags)]]

\* x placed before the entries of its own overlap: ties come out reversed
insertBeforeTies(sorted, x) ==
  LET k == Cardinality({i \in DOMAIN sorted : sorted[i].overlap > x.overlap})
  IN SubSeq(sorted, 1, k) \o <<x>> \o SubSeq(sorted, k + 1, Len(sorted))

\* x placed after every entry whose overlap is at least its own
insertStable(sorted, x) ==
  LET k == Cardinality({i \in DOMAIN sorted : sorted[i].overlap >= x.overlap})
  IN SubSeq(sorted, 1, k) \o <<x>> \o SubSeq(sorted, k + 1, Len(sorted))

\* scored.sort((a, b) => b.overlap - a.overlap) of the first n entries; the sort is stable
RECURSIVE sortScored(_, _)
sortScored(scored, n) ==
  IF n = 0 THEN <<>>
  ELSE insertStable(sortScored(scored, n - 1), scored[n])

\* { ...foundation, _relevance }
withRelevance(f, relevance) ==
  [x \in DOMAIN f \cup {"_relevance"} |->
     IF x = "_relevance" THEN relevance ELSE f[x]]

rankFoundationsByRelevance(foundations, activeCase) ==
  IF "null" \in DOMAIN activeCase THEN foundations
  ELSE IF caseTags(activeCase) = {} THEN foundations
  ELSE LET scored == scoredOf(foundations, caseTags(activeCase))
           sorted == sortScored(scored, Len(scored))
       IN [i \in DOMAIN sorted |->
             withRelevance(sorted[i].foundation,
                           IF sorted[i].overlap > 0 THEN "directly_relevant"
                                                    ELSE "general")]

\* ---------------------------------------------------------------------------
\* Specification SpecRank: rankFoundationsByRelevance applied to bounded inputs
\* ---------------------------------------------------------------------------
RankMaxFoundations == 3

RankMaxTags == 2

\* context tags of the candidate foundations
RankTagPool == {<<"a">>, <<"B">>, <<"c">>}

\* context_tags of one candidate
RankTagLists == UNION {[1..n -> RankTagPool] : n \in 0..RankMaxTags}

\* the i-th candidate, a listed foundation with its source annotations
RankCandidate(i, tags) ==
  [foundation    |-> [id           |-> <<"F", "-", "0", "0", "0">> \o NumToString(i),
                      title        |-> NumToString(i),
                      context_tags |-> tags,
                      confidence   |-> 1],
   _source_layer |-> join(AppDir, DosFolder),
   _source_scope |-> "PROJECT"]

\* the candidate lists
RankLists ==
  UNION {{[i \in 1..n |-> RankCandidate(i, tagsOf[i])] : tagsOf \in [1..n -> RankTagLists]} :
           n \in 0..RankMaxFoundations}

\* signals.context.affected_surface of the active case, when given
RankSurfaces == {<<>>, << <<"a">> >>, << <<"a">>, <<"B">> >>}

\* context.touched_areas of the active case, when given
RankAreas == {<< <<"b">> >>, << <<"C">> >>}

\* the active case: none, or a case with or without surfaces and areas
RankCases ==
  {NoActiveCase, [id |-> <<"c">>]}
    \cup {[id |-> <<"c">>, signals |-> [context |-> [affected_surface |-> s]]] :
            s \in RankSurfaces}
    \cup {[id |-> <<"c">>, context |-> [touched_areas |-> a]] : a \in RankAreas}
    \cup {[id |-> <<"c">>, signals |-> [context |-> [affected_surface |-> s]],
           context |-> [touched_areas |-> a]] : s \in RankSurfaces, a \in RankAreas}

InitRank ==
  /\ InitSingleUnused
  /\ layers = NoLayers
  /\ \E foundations \in RankLists, activeCase \in RankCases :
       arg = [op |-> "rankFoundationsByRelevance",
              foundations |-> foundations, activeCase |-> activeCase]
  /\ result = NoCall

Rank ==
  /\ result' = [op    |-> "rankFoundationsByRelevance",
                value |-> rankFoundationsByRelevance(arg.foundations, arg.activeCase)]
  /\ UNCHANGED <<svars, layers, arg>>

NextRank == Rank

SpecRank == InitRank /\ [][NextRank]_vars

\* the index of the user-wide layer when it is a layer other than the nearest, else 0
UserWideLayer(ls) ==
  IF \E k \in 2..Len(ls) : ls[k].basePath = GlobalPath
    THEN CHOOSE k \in 2..Len(ls) : ls[k].basePath = GlobalPath
    ELSE 0

\* the foundations of the user-wide layer, none when there is no such layer
UserWideFoundations(ls) ==
  IF UserWideLayer(ls) = 0 THEN <<>> ELSE ls[UserWideLayer(ls)].disk.foundations

\* the foundations of the nearest layer
ProjectFoundations(ls) == ls[projectLayer].disk.foundations

\* the entry the listing shows for the n-th foundation that layer k returns
ListedEntry(ls, filters, k, n) ==
  [foundation    |-> getFoundations(ls[k].disk, filters)[n],
   _source_layer |-> ls[k].basePath,
   _source_scope |-> IF ls[k].basePath = GlobalPath THEN "GLOBAL" ELSE "PROJECT"]

\* the positions <<layer, index>> of what the layers return under the filters
ListedPositions(ls, filters) ==
  {<<k, n>> : k \in DOMAIN ls, n \in 1..MMaxGlobal + 1} \cap
  {pos \in (DOMAIN ls) \X (1..MMaxGlobal + 1) :
     pos[2] <= Len(getFoundations(ls[pos[1]].disk, filters))}

\* nearest-first order of positions
PosBefore(a, b) == a[1] < b[1] \/ (a[1] = b[1] /\ a[2] < b[2])

\* pos is the first position, nearest first, that carries its title
IsFirstOfTitle(ls, filters, pos) ==
  \A other \in ListedPositions(ls, filters) :
    PosBefore(other, pos)
      => ListedEntry(ls, filters, other[1], other[2]).foundation.title
           # ListedEntry(ls, filters, pos[1], pos[2]).foundation.title

\* ---------------------------------------------------------------------------
\* C16 In the merged listing, of what the layers return, a title carried by a
\*     record of the nearest layer and by a record of the user-wide layer is
\*     shown once, by the nearest layer's record annotated with that layer's
\*     path and scope PROJECT; no two entries have the same title; the entries
\*     are exactly the first occurrences of the titles in nearest-first layer
\*     order, in that order, each annotated with its layer.
\* ---------------------------------------------------------------------------
C16_MergedListingFirstWins ==
  \A filters \in MergeFilters :
    LET m == mergedFoundations(layers, filters)
        firsts == {pos \in ListedPositions(layers, filters) :
                     IsFirstOfTitle(layers, filters, pos)}
    IN /\ \A i \in DOMAIN m : \A j \in DOMAIN m :
            i # j => m[i].foundation.title # m[j].foundation.title
       /\ Len(m) = Cardinality(firsts)
       /\ \A i \in DOMAIN m :
            \E pos \in firsts :
              /\ m[i] = ListedEntry(layers, filters, pos[1], pos[2])
              /\ \A j \in DOMAIN m : \A posj \in firsts :
                   (i < j /\ m[j] = ListedEntry(layers, filters, posj[1], posj[2])
                      /\ m[j].foundation.title # m[i].foundation.title)
                     => PosBefore(pos, posj)
       /\ \A p \in DOMAIN getFoundations(layers[projectLayer].disk, filters) :
            \A g \in DOMAIN UserWideFoundations(layers) :
              LET pf == getFoundations(layers[projectLayer].disk, filters)[p]
                  gf == UserWideFoundations(layers)[g]
              IN pf.title = gf.title
                   => /\ \E i \in DOMAIN m :
                           /\ m[i].foundation.title = pf.title
                           /\ m[i]._source_layer = layers[projectLayer].basePath
                           /\ m[i]._source_scope = "PROJECT"
                      /\ \A i \in DOMAIN m :
                           m[i]._source_layer = GlobalPath => m[i].foundation # gf

\* the unfiltered listing was just returned: the nearest layer and the user-wide
\* layer both hold a record titled as the first entry, which is the nearest
\* layer's, and a second entry comes from the user-wide layer
C16_Witness ==
  /\ result.op = "getFoundations"
  /\ result.filters = NoFilters
  /\ UserWideLayer(layers) # 0
  /\ Len(result.value) = 2
  /\ Len(UserWideFoundations(layers)) = 2
  /\ result.value[1]._source_scope = "PROJECT"
  /\ result.value[1].foundation = ProjectFoundations(layers)[1]
  /\ result.value[2]._source_scope = "GLOBAL"
  /\ \E g \in DOMAIN UserWideFoundations(layers) :
       UserWideFoundations(layers)[g].title = ProjectFoundations(layers)[1].title

\* the shadowing conflicts detectConflicts reports for the project record pf
ShadowsOf(ls, pf) ==
  LET mine(c) == c.kind = "shadows" /\ c.project_foundation = pf
  IN SelectSeq(detectConflicts(ls), mine)

\* ---------------------------------------------------------------------------
\* C17 detectConflicts reports a shadowing conflict for every pair
\*     of a project record and a user-wide record whose titles are equal
\*     ignoring case, whatever their tags and behavior texts.
\* ---------------------------------------------------------------------------
C17_ShadowForEveryPair ==
  \A p \in DOMAIN ProjectFoundations(layers) :
    \A g \in DOMAIN UserWideFoundations(layers) :
      LET pf == ProjectFoundations(layers)[p]
          gf == UserWideFoundations(layers)[g]
      IN toLowerCase(pf.title) = toLowerCase(gf.title)
           => \E i \in DOMAIN ShadowsOf(layers, pf) :
                ShadowsOf(layers, pf)[i].global_foundation = gf

\* one text contains "always" and the other "never", or one "prefer" and the
\* other "avoid", whichever record holds which word
ContradictoryEitherWay(a, b) ==
  LET x == toLowerCase(a)
      y == toLowerCase(b)
  IN \/ Includes(x, Always) /\ Includes(y, Never)
     \/ Includes(x, Never) /\ Includes(y, Always)
     \/ Includes(x, Prefer) /\ Includes(y, Avoid)
     \/ Includes(x, Avoid) /\ Includes(y, Prefer)

\* ---------------------------------------------------------------------------
\* C18 For a project record and a user-wide record whose titles do not match,
\*     detectConflicts reports the pair exactly when the two share at least one
\*     context tag and their behavior texts are contradictory, in either
\*     assignment of the trigger words to the two records.
\* ---------------------------------------------------------------------------
C18_ContradictionsReported ==
  \A p \in DOMAIN ProjectFoundations(layers) :
    \A g \in DOMAIN UserWideFoundations(layers) :
      LET pf == ProjectFoundations(layers)[p]
          gf == UserWideFoundations(layers)[g]
          reported == \E i \in DOMAIN detectConflicts(layers) :
                        /\ detectConflicts(layers)[i].kind = "contradiction"
                        /\ detectConflicts(layers)[i].project_foundation = pf
                        /\ detectConflicts(layers)[i].global_foundation = gf
      IN toLowerCase(pf.title) # toLowerCase(gf.title)
           => (reported <=>
                 /\ Range(pf.context_tags) \cap Range(gf.context_tags) # {}
                 /\ ContradictoryEitherWay(pf.default_behavior, gf.default_behavior))

\* ---------------------------------------------------------------------------
\* C19 Whenever no user-wide layer was discovered, detectConflicts returns an
\*     empty list, whatever other layers exist and whatever they hold.
\* ---------------------------------------------------------------------------
C19_NoUserWideNoConflicts ==
  (\A k \in DOMAIN layers : layers[k].basePath # GlobalPath)
    => detectConflicts(layers) = <<>>

\* the candidate f shares a tag, ignoring case, with the unit c
SharedTags(f, c) ==
  {i \in DOMAIN f.foundation.context_tags :
     \E u \in Range(surfaces(c)) \cup Range(areas(c)) :
       toUpperCase(f.foundation.context_tags[i]) = toUpperCase(u)}

\* the bijections of 1..n onto itself
Orderings(n) ==
  {p \in [1..n -> 1..n] : \A i \in 1..n : \E j \in 1..n : p[j] = i}

\* ---------------------------------------------------------------------------
\* C20 When the active unit has at least one affected-surface or touched-area
\*     tag, the ranking is a permutation of the candidates in which every
\*     candidate sharing a tag with the unit, ignoring case, comes before
\*     every candidate sharing none, overlap counts descend, ties keep their
\*     input order, and each entry is the candidate annotated
\*     directly_relevant when its overlap is positive and general otherwise.
\* ---------------------------------------------------------------------------
C20_RankingOrder ==
  LET fs == arg.foundations
      c == arg.activeCase
      r == rankFoundationsByRelevance(fs, c)
      count(i) == Cardinality(SharedTags(fs[i], c))
  IN (/\ arg.op = "rankFoundationsByRelevance"
      /\ "null" \notin DOMAIN c
      /\ Range(surfaces(c)) \cup Range(areas(c)) # {})
       => /\ Len(r) = Len(fs)
          /\ \E p \in Orderings(Len(fs)) :
               /\ \A i \in DOMAIN r :
                    /\ DOMAIN r[i] = DOMAIN fs[p[i]] \cup {"_relevance"}
                    /\ \A x \in DOMAIN fs[p[i]] : r[i][x] = fs[p[i]][x]
                    /\ r[i]._relevance = IF count(p[i]) > 0 THEN "directly_relevant"
                                                            ELSE "general"
               /\ \A i \in DOMAIN r : \A j \in DOMAIN r :
                    i < j => /\ count(p[i]) >= count(p[j])
                             /\ count(p[i]) = count(p[j]) => p[i] < p[j]
                             /\ ~(count(p[i]) = 0 /\ count(p[j]) > 0)

\* three candidates were ranked: the first shares nothing with the unit, the
\* second shares one tag through case normalisation only, the third shares one
\* tag; the result lists the second, the third, then the first as general
C20_Witness ==
  /\ result.op = "rankFoundationsByRelevance"
  /\ Len(arg.foundations) = 3
  /\ "null" \notin DOMAIN arg.activeCase
  /\ SharedTags(arg.foundations[1], arg.activeCase) = {}
  /\ Cardinality(SharedTags(arg.foundations[2], arg.activeCase)) = 1
  /\ Range(arg.foundations[2].foundation.context_tags)
       \cap (Range(surfaces(arg.activeCase)) \cup Range(areas(arg.activeCase))) = {}
  /\ Cardinality(SharedTags(arg.foundations[3], arg.activeCase)) = 1
  /\ result.value[1].foundation = arg.foundations[2].foundation
  /\ result.value[2].foundation = arg.foundations[3].foundation
  /\ result.value[3].foundation = arg.foundations[1].foundation
  /\ result.value[1]._relevance = "directly_relevant"
  /\ result.value[3]._relevance = "general"

\* the index of the layer whose folder is path, 0 for none
LayerAt(ls, path) ==
  IF \E k \in DOMAIN ls : ls[k].basePath = path
    THEN CHOOSE k \in DOMAIN ls : ls[k].basePath = path
    ELSE 0

\* ---------------------------------------------------------------------------
\* C21 With a user-wide layer, a successful elevateFoundation of a project
\*     record creates a user-wide record equal to the original in title,
\*     context tags, source list, confidence and validated-in list, whose
\*     body text is the original's with the elevation note appended when a
\*     reason is given, whose scope is GLOBAL with a GF- id and whose
\*     origin-project is the current project; the original is then no longer
\*     in the project layer.
\* ---------------------------------------------------------------------------
C21_ElevateCopiesRecord ==
  \A i \in DOMAIN ProjectFoundations(layers) : \A reason \in Reasons :
    LET f == ProjectFoundations(layers)[i]
        r == elevateFoundation(layers, f.id, reason)
        g == r.foundation
    IN (UserWideLayer(layers) # 0 /\ r.err = "none")
         => /\ g \in Range(UserWideFoundations(r.layers))
            /\ g.title = f.title
            /\ g.context_tags = f.context_tags
            /\ g.source_pressures = f.source_pressures
            /\ g.confidence = f.confidence
            /\ g.validated_in = f.validated_in
            /\ g.default_behavior = f.default_behavior \o elevationNote(reason)
            /\ g.scope = "GLOBAL"
            /\ SubSeq(g.id, 1, 3) = <<"G", "F", "-">>
            /\ g.origin_project = configProject
            /\ f.id \notin FoundationIds(r.layers[projectLayer].disk)

\* ---------------------------------------------------------------------------
\* C22 elevateFoundation fails whenever no user-wide layer exists, and fails
\*     when the id is not a record of the project layer; a failed call
\*     leaves every layer as it was.
\* ---------------------------------------------------------------------------
C22_ElevateFailsCleanly ==
  \A foundation_id \in AllFoundationIds(layers) \cup {UnknownFoundation} :
    \A reason \in Reasons :
      LET r == elevateFoundation(layers, foundation_id, reason)
      IN /\ (LayerAt(layers, GlobalPath) = 0 \/ foundation_id
               \notin FoundationIds(layers[projectLayer].disk))
              => r.err # "none"
         /\ r.err # "none" => r.layers = layers

\* ---------------------------------------------------------------------------
\* C23 validateFoundation on a record of the merged listing succeeds and
\*     changes that record, in the layer it came from, and nothing else: the
\*     current project label is added to validated-in if absent, confidence
\*     rises by 1 when the resulting list has 3 or more labels and
\*     confidence is below 3, and stays otherwise.
\* ---------------------------------------------------------------------------
C23_ValidateUpdatesSource ==
  \A n \in DOMAIN mergedFoundations(layers, NoFilters) :
    LET e == mergedFoundations(layers, NoFilters)[n]
        f == e.foundation
        k == LayerAt(layers, e._source_layer)
        i == foundationIndex(layers[k].disk.foundations, f.id)
        r == validateFoundation(layers, configProject, f.id)
        labels == IF configProject \in Range(f.validated_in)
                    THEN f.validated_in ELSE f.validated_in \o <<configProject>>
        expected == [f EXCEPT !.validated_in = labels,
                              !.confidence = IF Len(labels) >= 3 /\ f.confidence < 3
                                               THEN f.confidence + 1 ELSE f.confidence]
    IN /\ r.err = "none"
       /\ r.layers = [layers EXCEPT ![k].disk.foundations[i] = expected]
       /\ expected.confidence >= f.confidence
       /\ expected.confidence <= 3

\* ---------------------------------------------------------------------------
\* C24 The constructor's layer list has no duplicates; its first entry is the
\*     nearest directory with a layer and the entries found by walking up
\*     are ordered nearest first; when ~/.decision-os is in the list it is
\*     the last entry, and is the layer treated as global when there are two
\*     or more layers; construction raises exactly when the list is empty.
\* ---------------------------------------------------------------------------
C24_DiscoveryOrder ==
  arg.op = "construct" =>
    LET r == construct(arg.markers, arg.workspacePath)
        paths == r.paths
    IN /\ \A i \in DOMAIN paths : \A j \in DOMAIN paths : i # j => paths[i] # paths[j]
       /\ \A i \in DOMAIN paths : \A j \in DOMAIN paths :
            (i < j /\ paths[j] # GlobalPath) => Len(paths[i]) > Len(paths[j])
       /\ r.err = "none" => r.project = 1
       /\ GlobalPath \in Range(paths)
            => /\ paths[Len(paths)] = GlobalPath
               /\ r.global # 0 => paths[r.global] = GlobalPath
       /\ r.err = "NoLayerFound" <=> paths = <<>>

\* the operations on units of work and divergence records
CaseOperations ==
  {"createCase", "closeCase", "logPressure", "setActiveCase", "searchPressures",
   "suggestReview"}

\* ---------------------------------------------------------------------------
\* C25 A unit-of-work or divergence-record operation issued through the
\*     hierarchical store leaves every layer other than the nearest as it
\*     was: its units, divergence records, marker, pointer, counters and
\*     foundations.
\* ---------------------------------------------------------------------------
C25_CaseOpsTouchNearestOnly ==
  [][result'.op \in CaseOperations
       => /\ Len(layers') = Len(layers)
          /\ \A k \in 2..Len(layers) : layers'[k] = layers[k]]_vars

\* logPressure was just called through a store of three layers whose user-wide
\* layer holds a foundation, and the nearest layer holds the new record
C25_Witness ==
  /\ result.op = "logPressure"
  /\ result.err = "none"
  /\ Len(layers) = 3
  /\ layers[3].disk.foundations # <<>>
  /\ allPressures(layers[projectLayer].disk) # <<>>
  /\ allPressures(layers[3].disk) = <<>>

\* ---------------------------------------------------------------------------
\* C26 A new store initialized on the directory has as its pointer the id in
\*     the marker file when that unit exists, and otherwise a null pointer
\*     with the marker file deleted; the initialization changes no unit,
\*     divergence record or foundation, and calling initialize again on that
\*     store changes neither its pointer, its counters nor anything stored.
\* ---------------------------------------------------------------------------
C26_PointerSurvivesRestart ==
  LET r == initialize(disk, NewInstance)
      again == initialize(r.disk, r.mem)
  IN /\ (disk.marker # NoCase /\ disk.marker \in DOMAIN disk.cases)
          => r.mem.activeCase = disk.marker /\ r.disk.marker = disk.marker
     /\ (disk.marker = NoCase \/ disk.marker \notin DOMAIN disk.cases)
          => r.mem.activeCase = NoCase /\ r.disk.marker = NoCase
     /\ r.disk.cases = disk.cases
     /\ r.disk.pressures = disk.pressures
     /\ r.disk.foundations = disk.foundations
     /\ again.mem = r.mem
     /\ again.disk = r.disk

\* a new store was just initialized on a directory whose marker named a unit
\* that does not exist, next to existing units: its pointer is null and the
\* marker is gone
C26_Witness ==
  /\ last.op = "initialize"
  /\ last.caseId = UnknownCase
  /\ DOMAIN disk.cases # {}
  /\ mem.activeCase = NoCase
  /\ disk.marker = NoCase

\* ---------------------------------------------------------------------------
\* C27, C28: suggestReview (SpecReview)
\* ---------------------------------------------------------------------------

\* the divergence records of a unit that lack a promoted-to value
OpenRecordIds(d, caseId) ==
  {p.id : p \in {q \in Range(getPressureEvents(d, caseId)) :
                   q.promoted_to_foundation = NoFoundation}}

\* the COMPLETED units with regret "0" holding at least one unpromoted record
BlockingUnits(d) ==
  {id \in DOMAIN d.cases :
     /\ d.cases[id].status = "COMPLETED"
     /\ d.cases[id].regret = "0"
     /\ OpenRecordIds(d, id) # {}}

\* the blocking-forgetting list of the last suggestReview names exactly the blocking units
BlockingListExact ==
  result.op = "suggestReview" =>
    LET bf == result.value.blocking_forgetting
    IN /\ {bf[i].case_id : i \in DOMAIN bf} = BlockingUnits(disk)
       /\ \A i, j \in DOMAIN bf : bf[i].case_id = bf[j].case_id => i = j
       /\ \A i \in DOMAIN bf :
            /\ Range(bf[i].pe_ids) = OpenRecordIds(disk, bf[i].case_id)
            /\ Len(bf[i].pe_ids) = Cardinality(OpenRecordIds(disk, bf[i].case_id))
            /\ bf[i].unpromoted_pe_count = Len(bf[i].pe_ids)
            /\ disk.cases[bf[i].case_id].status # "ACTIVE"
            /\ disk.cases[bf[i].case_id].regret = "0"

\* C27: the blocking-forgetting list of suggestReview holds exactly the
\* COMPLETED units with regret "0" that hold an unpromoted divergence record,
\* each with the count and the ids of exactly those records; ACTIVE units and
\* units with another regret never appear; and a suggestReview step leaves the
\* stored state as it was
C27_BlockingForgettingExact ==
  /\ []BlockingListExact
  /\ [][result'.op = "suggestReview" => disk' = disk /\ mem' = mem]_vars

\* suggestReview was called while a regret-"0" unit holds both a promoted and
\* an unpromoted record and is listed, and a COMPLETED unit with regret "2"
\* holding an unpromoted record is not
C27_Witness ==
  /\ result.op = "suggestReview"
  /\ \E i \in DOMAIN result.value.blocking_forgetting :
       LET id == result.value.blocking_forgetting[i].case_id
       IN \E q \in Range(getPressureEvents(disk, id)) :
            q.promoted_to_foundation # NoFoundation
  /\ \E id \in DOMAIN disk.cases :
       /\ disk.cases[id].status = "COMPLETED"
       /\ disk.cases[id].regret = "2"
       /\ OpenRecordIds(disk, id) # {}

\* the unpromoted divergence records owned by COMPLETED units
CandidateRecords(d) ==
  UNION {{q \in Range(getPressureEvents(d, id)) : q.promoted_to_foundation = NoFoundation} :
           id \in {c \in DOMAIN d.cases : d.cases[c].status = "COMPLETED"}}

\* the ids of the candidate records that carry a tag
CarrierIds(d, tag) ==
  {p.id : p \in {q \in CandidateRecords(d) : tag \in Range(q.context_tags)}}

\* C28: every cluster reported by suggestReview has at least 2 distinct
\* member records, all unpromoted, owned by COMPLETED units and carrying the
\* grouping tag; its shared tags are exactly the tags every member carries;
\* every tag carried by 2 or more such records yields a cluster; and no two
\* clusters have the same set of member ids
C28_ClustersWellFormed ==
  result.op = "suggestReview" =>
    LET fc == result.value.foundation_candidates
        members(i) == {q \in CandidateRecords(disk) : q.id \in Range(fc[i].pressure_events)}
    IN /\ \A i \in DOMAIN fc :
            /\ Cardinality(Range(fc[i].pressure_events)) >= 2
            /\ Range(fc[i].pressure_events) \subseteq CarrierIds(disk, fc[i].theme)
            /\ Range(fc[i].shared_tags) =
                 {t \in UNION {Range(q.context_tags) : q \in members(i)} :
                    \A q \in members(i) : t \in Range(q.context_tags)}
       /\ \A t \in UNION {Range(q.context_tags) : q \in CandidateRecords(disk)} :
            Cardinality(CarrierIds(disk, t)) >= 2 =>
              \E i \in DOMAIN fc : Range(fc[i].pressure_events) = CarrierIds(disk, t)
       /\ \A i, j \in DOMAIN fc :
            Range(fc[i].pressure_events) = Range(fc[j].pressure_events) => i = j

\* ---------------------------------------------------------------------------
\* C29: checkPolicy (SpecPolicy)
\* ---------------------------------------------------------------------------

\* the surfaces of the policy table's STRICT row
StrictSurfaces == {"SECURITY_BOUNDARY", "INFRA_DEPLOY", "PERFORMANCE_CRITICAL", "DATA_MODEL"}

\* the surfaces of the policy table's STANDARD row
StandardSurfaces == {"INTEGRATION", "CORE_DOMAIN"}

\* the surfaces of the policy table's comparison row
ComparisonSurfaces == {"CORE_DOMAIN", "DATA_MODEL", "SECURITY_BOUNDARY"}

\* the surfaces given with the call
GivenSurfaces == IF arg.affected_surface = NoSignal THEN {} ELSE Range(arg.affected_surface)

\* the policy table's STRICT and STANDARD rows and its comparison row
TableStrict ==
  \/ "HIGH" \in {arg.risk_level, arg.uncertainty}
  \/ arg.reversibility = "HARD"
  \/ GivenSurfaces \cap StrictSurfaces # {}

TableStandard ==
  \/ arg.risk_level = "MEDIUM"
  \/ arg.repo_scope = "CROSS_REPO"
  \/ GivenSurfaces \cap StandardSurfaces # {}

TableComparison ==
  \/ "HIGH" \in {arg.risk_level, arg.uncertainty}
  \/ arg.reversibility = "HARD"
  \/ arg.repo_scope = "CROSS_REPO"
  \/ GivenSurfaces \cap ComparisonSurfaces # {}

\* the result of the last checkPolicy is the one the policy table gives
PolicyTableHolds ==
  result.op = "checkPolicy" =>
    /\ result.value.require_options_comparison = TableComparison
    /\ TableStrict => result.value.validation_level = "STRICT"
    /\ ~TableStrict /\ TableStandard => result.value.validation_level = "STANDARD"
    /\ ~TableStrict /\ ~TableStandard => result.value.validation_level = "BASIC"
    /\ result.value.require_options_comparison => result.value.validation_level # "BASIC"

\* C29: for every combination of risk_level, reversibility, repo_scope,
\* affected_surface and uncertainty, checkPolicy returns
\* require_options_comparison and validation_level as the policy table gives
\* them, STRICT before STANDARD before BASIC; a required comparison never comes
\* with BASIC; the result is the same whatever the store holds, and a
\* checkPolicy step leaves the stored state as it was
C29_PolicyTable ==
  /\ []PolicyTableHolds
  /\ [][result'.op = "checkPolicy" => disk' = disk /\ mem' = mem]_vars

\* checkPolicy was called on a store holding a case, with signals that meet
\* both the STRICT and the STANDARD row, and answered STRICT with a comparison
C29_Witness ==
  /\ result.op = "checkPolicy"
  /\ DOMAIN disk.cases # {}
  /\ TableStrict /\ TableStandard
  /\ arg.affected_surface = <<"INTEGRATION", "INFRA_DEPLOY">>
  /\ arg.risk_level = "MEDIUM"
  /\ result.value.validation_level = "STRICT"

\* ---------------------------------------------------------------------------
\* C30: one live store instance per layer directory (SpecCache)
\* ---------------------------------------------------------------------------

\* no two instances held by the cache have the same base path
OneInstancePerDirectory ==
  \A p, q \in DOMAIN layers :
    \A i \in DOMAIN layers[p], j \in DOMAIN layers[q] :
      layers[p][i].basePath = layers[q][j].basePath => p = q /\ i = j

\* the foundations of every layer folder have pairwise different ids
FoundationIdsUnique ==
  \A b \in DOMAIN disk :
    \A i, j \in DOMAIN disk[b].foundations :
      disk[b].foundations[i].id = disk[b].foundations[j].id => i = j

\* C30: every layer directory is owned by at most one store instance of the
\* adapter's cache, whatever workspace paths were asked for, and the
\* identifiers allocated in a layer stay unique
C30_OneInstancePerDirectory ==
  /\ OneInstancePerDirectory
  /\ FoundationIdsUnique

\* ---------------------------------------------------------------------------
\* C31: closeCase fails without effect (SpecClose)
\* ---------------------------------------------------------------------------

\* C31: whenever closeCase raises (unknown id, regret outside the enum, or an
\* unreadable pressures.yaml of the case), the case documents of the layer,
\* the marker file and the active pointer are as they were before the call
C31_CloseCaseAllOrNothing ==
  [][result'.op = "closeCase" /\ result'.err # "none" =>
       /\ disk'.cases = disk.cases
       /\ disk'.marker = disk.marker
       /\ mem'.activeCase = mem.activeCase]_vars

\* ---------------------------------------------------------------------------
\* C32: promoteToFoundation with scope GLOBAL marks the project layer's
\* source records (SpecLayers)
\* ---------------------------------------------------------------------------

\* a foundation of scope GLOBAL was appended to the collection of some layer
GlobalRecordCreated(before, after) ==
  \E k \in DOMAIN before :
    /\ Len(after[k].disk.foundations) = Len(before[k].disk.foundations) + 1
    /\ after[k].disk.foundations[Len(after[k].disk.foundations)].scope = "GLOBAL"

\* C32: when promoteToFoundation with scope GLOBAL runs through a store that
\* has a user-wide layer, the new record is appended to the user-wide layer's
\* collection and every divergence record of the project layer whose id is in
\* its source list has its promoted_to_foundation set to the new record's id
C32_GlobalPromoteMarksProjectRecords ==
  [][(/\ result'.op = "promoteToFoundation"
      /\ UserWideLayer(layers) # 0
      /\ GlobalRecordCreated(layers, layers'))
       => LET u == UserWideLayer(layers)
              created == layers'[u].disk.foundations[Len(layers'[u].disk.foundations)]
          IN /\ Len(layers'[u].disk.foundations) = Len(layers[u].disk.foundations) + 1
             /\ created.scope = "GLOBAL"
             /\ \A caseId \in DOMAIN layers[projectLayer].disk.pressures :
                  \A i \in DOMAIN layers[projectLayer].disk.pressures[caseId] :
                    layers[projectLayer].disk.pressures[caseId][i].id
                        \in Range(created.source_pressures)
                      => layers'[projectLayer].disk.pressures[caseId][i].promoted_to_foundation
                           = created.id]_vars

\* ---------------------------------------------------------------------------
\* C33: status and outcome signals of units (SpecLifecycle)
\* ---------------------------------------------------------------------------

\* every unit is ACTIVE or COMPLETED and carries a regret exactly when COMPLETED
StatusAndOutcomeAgree ==
  \A id \in DOMAIN disk.cases :
    /\ disk.cases[id].status \in {"ACTIVE", "COMPLETED"}
    /\ disk.cases[id].regret # NoOutcome <=> disk.cases[id].status = "COMPLETED"

\* no unit that is COMPLETED is ACTIVE after a step
NeverReopened ==
  \A id \in (DOMAIN disk.cases) \cap (DOMAIN disk'.cases) :
    disk.cases[id].status = "COMPLETED" => disk'.cases[id].status # "ACTIVE"

\* C33: under createCase, logPressure, promoteToFoundation, closeCase and
\* setActiveCase every existing unit is ACTIVE or COMPLETED, never ABANDONED;
\* no unit goes from COMPLETED back to ACTIVE; and a unit carries outcome
\* signals (regret) exactly when it is COMPLETED
C33_StatusAndOutcome ==
  /\ []StatusAndOutcomeAgree
  /\ [][NeverReopened]_vars

\* ---------------------------------------------------------------------------
\* C34: marker file and active pointer agree (SpecPointer)
\* ---------------------------------------------------------------------------

\* C34: after every completed createCase, setActiveCase, closeCase and
\* initialize the marker file exists exactly when the pointer is non-null,
\* and then holds the pointer's id
C34_MarkerAgreesWithPointer ==
  /\ disk.marker = NoCase <=> mem.activeCase = NoCase
  /\ mem.activeCase # NoCase => disk.marker = mem.activeCase

\* ---------------------------------------------------------------------------
\* C35: the active pointer names an existing unit (Spec)
\* ---------------------------------------------------------------------------

\* C35: across createCase, logPressure, promoteToFoundation, closeCase with
\* or without auto-forget, setActiveCase on ids of existing units and
\* restarts, a non-null active pointer names a unit that exists in the layer,
\* so a logPressure without case_id does not fail with NotFound
C35_PointerNeverDangles ==
  /\ mem.activeCase # NoCase => caseExists(disk, mem.activeCase)
  /\ \A context_tags \in TagChoices :
       logPressure(disk, mem, NoCase, context_tags).err # "NotFound"

\* a closeCase just forgot its unit while the pointer names another unit, and
\* a logPressure without case_id would succeed on that unit
C35_Witness ==
  /\ last.op = "closeCase"
  /\ ~caseExists(disk, last.caseId)
  /\ mem.activeCase # NoCase
  /\ \E context_tags \in TagChoices :
       logPressure(disk, mem, NoCase, context_tags).err = "none"

\* ---------------------------------------------------------------------------
\* C36: identifier allocation under interleaving (SpecAsync)
\* ---------------------------------------------------------------------------

\* C36: when createCase, logPressure and promoteToFoundation calls on one
\* store instance are interleaved at their awaits, no two calls obtain the
\* same identifier, and the calls in flight hold pairwise different ones
C36_AllocationAtomic ==
  /\ \A id \in DOMAIN result.obtained : result.obtained[id] = 1
  /\ \A i, j \in DOMAIN arg :
       arg[i].id # NoCase /\ arg[i].id = arg[j].id => i = j

\* two logPressure calls are in flight, both past their allocation and
\* neither has written yet
C36_Witness ==
  /\ Len(arg) = 2
  /\ \A i \in DOMAIN arg : arg[i].op = "logPressure" /\ arg[i].pc = "writeEvents"
  /\ arg[1].caseId = arg[2].caseId

\* ---------------------------------------------------------------------------
\* C37: validateFoundation twice in a row (SpecValidate)
\* ---------------------------------------------------------------------------

\* C37: for every record of the store, a second validateFoundation from the
\* same project right after a successful first one leaves the record's
\* validated-in list and confidence as the first call left them
C37_ValidateIdempotent ==
  \A foundation_id \in AllFoundationIds(layers) :
    LET first == validateFoundation(layers, configProject, foundation_id)
        second == validateFoundation(first.layers, configProject, foundation_id)
    IN first.err = "none"
         => /\ second.err = "none"
            /\ second.foundation.validated_in = first.foundation.validated_in
            /\ second.foundation.confidence = first.foundation.confidence

\* ---------------------------------------------------------------------------
\* C38, C39: shadowing, conflicts and the merged listing (SpecMerge)
\* ---------------------------------------------------------------------------

\* the record gf of the user-wide layer is an entry of the listing m
ListsUserWide(m, gf) ==
  \E i \in DOMAIN m : m[i].foundation = gf /\ m[i]._source_layer = GlobalPath

\* C38: for every shadowing conflict detectConflicts reports between a project
\* record and a user-wide record, the user-wide record of the pair is not in
\* the unfiltered merged listing
C38_ShadowedNotListed ==
  UserWideLayer(layers) # 0 /\ globalLayer(layers) = UserWideLayer(layers)
    => \A i \in DOMAIN detectConflicts(layers) :
         detectConflicts(layers)[i].kind = "shadows"
           => ~ListsUserWide(mergedFoundations(layers, NoFilters),
                             detectConflicts(layers)[i].global_foundation)

\* C39: for every filter given to the merged listing, a user-wide record
\* whose title is the title of a project-layer record is not in the result,
\* whether or not the project record passes the filter
C39_PrecedenceUnderFilters ==
  \A filters \in MergeFilters :
    \A g \in DOMAIN UserWideFoundations(layers) :
      (\E p \in DOMAIN ProjectFoundations(layers) :
         ProjectFoundations(layers)[p].title = UserWideFoundations(layers)[g].title)
        => ~ListsUserWide(mergedFoundations(layers, filters), UserWideFoundations(layers)[g])

\* ---------------------------------------------------------------------------
\* C40: what a write into the user-wide layer changes (SpecFrame)
\* ---------------------------------------------------------------------------

\* C40: a promoteToFoundation or elevateFoundation through the hierarchical
\* store that writes into the user-wide layer changes only that layer's
\* foundation collection and foundation counter: its units, divergence
\* records, marker, pointer and other counters stay as they were
C40_UserWideWriteFrame ==
  [][(/\ result'.op \in {"promoteToFoundation", "elevateFoundation"}
      /\ LayerAt(layers, GlobalPath) # 0
      /\ layers'[LayerAt(layers, GlobalPath)] # layers[LayerAt(layers, GlobalPath)])
       => LET u == LayerAt(layers, GlobalPath)
          IN /\ layers'[u].disk.cases = layers[u].disk.cases
             /\ layers'[u].disk.pressures = layers[u].disk.pressures
             /\ layers'[u].disk.marker = layers[u].disk.marker
             /\ [layers'[u].mem EXCEPT !.nextFoundationId = 0]
                  = [layers[u].mem EXCEPT !.nextFoundationId = 0]]_vars

====
